---- MODULE Spec2Model ----
(***************************************************************************)
(* A model of the monkey-manager intake pipeline: the identity resolver   *)
(* and canonical namer of src/src/file_renamer.py (FileRenamer), and the  *)
(* forensic logger of src/src/forensic_logger.py with the log reader of   *)
(* src/src/forensic_analysis.py.                                          *)
(*                                                                         *)
(* Strings are tuples of one-character strings, so that str.replace,      *)
(* str.strip, os.path.splitext and the f-string formatting of the code    *)
(* are computed on characters.                                            *)
(***************************************************************************)
EXTENDS Integers, Sequences, FiniteSets, TLC

VARIABLES
    pc,                \* position of the run: of rename_files "start", "build", "walk",
                       \* "done"; of TextExtractor.process_files "x_start" .. "x_done"
    df,                \* the rows of the mapping table that iterrows has yielded so far
    lookup,            \* spreadsheet_lookup: variant key -> <<respondent_id, col_num>>
    visited,           \* the input files os.walk has yielded so far, in order
    named,             \* per visited file that reached naming: its resolution and new name
    outputs,           \* the output tree: output path -> the input file whose copy it
                       \* holds (FileRenamer), or the artifact it holds (TextExtractor)
    clobbered,         \* output paths whose earlier copy was overwritten by another input file
    filename_mappings, \* rows collected for the mapping-audit CSV
    csv,               \* the mapping-audit CSV once written (a sequence of rows), or NoCsv
    log,               \* the session log of the process: a sequence of records
    invoked,           \* the ForensicLogger calls made so far, in order
    escaped,           \* TRUE once an exception has propagated out of a ForensicLogger call
    now,               \* the wall clock, in ticks
    session,           \* per process: the session_id of its ForensicLogger, or NoSession
    log_dir,           \* the log directory: session file name -> its lines
    tree,              \* the input tree of the extractor: its files in walk order
    writable,          \* whether files can be created in the extractor's output_dir
    force,             \* force_reprocess of the current extractor run
    cur,               \* the file the extractor is working on, with its target and text
    extracted,         \* the <<run, file>> for which sanitize_pdf / sanitize_docx was called
    ended,             \* how each finished extractor run ended, and the artifacts it left
    racers,            \* per concurrent extractor process: its position, input file,
                       \* file offset and logger
    last_writer,       \* the process whose write to the output tree was the latest
    enr,               \* the SurveyMonkeyEnricher: its arguments and the locals of
                       \* enrich_json_files
    ana,               \* the ForensicAnalyzer: its lists and its position in
                       \* load_logs and generate_report
    vld,               \* the ProcessingValidator: its arguments, the locals of
                       \* validate_processing and the exit status of the process
    wsp,               \* the WhisperTranscriber: its input files, flags and position
    ytb,               \* the YouTubeProcessor: its links, flags, downloaded videos
                       \* and position
    leg,               \* the legacy process_files: its directories and runs
    rnm                \* the disk a FileRenamer run works on: its directories, the
                       \* files in them and the listing os.walk has made

vars == <<pc, df, lookup, visited, named, outputs, clobbered, filename_mappings,
          csv, log, invoked, escaped, now, session, log_dir,
          tree, writable, force, cur, extracted, ended, racers, last_writer, enr, ana, vld,
          wsp, ytb, leg, rnm>>

\* the log directory shared by several processes (SpecSessions)
Sessions == <<now, session, log_dir>>

\* the state of TextExtractor runs (SpecExtract)
Extraction == <<tree, writable, force, cur, extracted, ended>>

\* the extractor processes running at the same time (SpecRace)
Race == <<racers, last_writer>>

\* the stages that run on the artifacts and on the logs (SpecEnrich,
\* SpecAnalyze, SpecValidate)
Downstream == <<enr, ana, vld, wsp, ytb, leg, rnm>>

\* the transcriber, the YouTube stage, the legacy single-pass script and the
\* renamer's disk (SpecWhisper, SpecYouTube, SpecLegacy, SpecDisk)
Stages == <<wsp, ytb, leg, rnm>>

\* what a FileRenamer run and direct logger calls leave alone
Others == <<Sessions, Extraction, Race, Downstream>>

-----------------------------------------------------------------------------
(* Python string operations, on tuples of characters.                      *)

SP  == <<" ">>
PCT == <<"%", "2", "0">>
US  == <<"_">>

\* s[i:] in Python terms (1-based here)
Drop(s, n) == SubSeq(s, n + 1, Len(s))

StartsWith(s, p) == Len(p) <= Len(s) /\ SubSeq(s, 1, Len(p)) = p

\* `p in s`
Contains(s, p) == \E i \in 1..(Len(s) - Len(p) + 1) : SubSeq(s, i, i + Len(p) - 1) = p

\* s.replace(p, r): leftmost, non-overlapping occurrences, p non-empty
RECURSIVE Replace(_, _, _)
Replace(s, p, r) ==
    IF s = <<>> THEN <<>>
    ELSE IF StartsWith(s, p) THEN r \o Replace(Drop(s, Len(p)), p, r)
    ELSE <<Head(s)>> \o Replace(Tail(s), p, r)

\* s.lstrip() / s.rstrip() / s.strip(): the whitespace of the model is the space
RECURSIVE LStrip(_)
LStrip(s) == IF s # <<>> /\ Head(s) = " " THEN LStrip(Tail(s)) ELSE s

RECURSIVE RStrip(_)
RStrip(s) == IF s # <<>> /\ s[Len(s)] = " " THEN RStrip(SubSeq(s, 1, Len(s) - 1)) ELSE s

Strip(s) == RStrip(LStrip(s))

\* os.path.splitext on a bare file name: split at the last dot, unless that dot
\* is preceded by dots only (a leading-dot name has no extension)
LastDot(s) ==
    IF \E i \in 1..Len(s) : s[i] = "."
    THEN CHOOSE i \in 1..Len(s) : s[i] = "." /\ \A j \in (i + 1)..Len(s) : s[j] # "."
    ELSE 0

SplitExt(s) ==
    LET d == LastDot(s) IN
    IF d > 0 /\ \E j \in 1..(d - 1) : s[j] # "."
    THEN <<SubSeq(s, 1, d - 1), SubSeq(s, d, Len(s))>>
    ELSE <<s, <<>>>>

\* str(n) of a Python int
Digit(d) == <<"0", "1", "2", "3", "4", "5", "6", "7", "8", "9">>[d + 1]

RECURSIVE NatStr(_)
NatStr(n) == IF n < 10 THEN <<Digit(n)>> ELSE NatStr(n \div 10) \o <<Digit(n % 10)>>

IntStr(n) == IF n < 0 THEN <<"-">> \o NatStr(-n) ELSE NatStr(n)

-----------------------------------------------------------------------------
(* Cells of the mapping table as pandas hands them to the code.            *)

NaN       == [t |-> "nan"]                \* a missing cell (float NaN)
Num(x)    == [t |-> "num", tenths |-> x]  \* a float cell, in tenths: Num(425) is 42.5
Str(s)    == [t |-> "str", s |-> s]       \* a str cell
Timestamp == [t |-> "timestamp"]          \* a date cell of an .xlsx sheet

\* pd.isna(cell)
IsNa(cell) == cell.t = "nan"

\* isinstance(cell, str)
IsStr(cell) == cell.t = "str"

Digits == {"0", "1", "2", "3", "4", "5", "6", "7", "8", "9"}

RECURSIVE DecValue(_)
DecValue(s) ==
    IF s = <<>> THEN 0
    ELSE 10 * DecValue(SubSeq(s, 1, Len(s) - 1))
         + (CHOOSE d \in 0..9 : Digit(d) = s[Len(s)])

\* float(cell) succeeds: a float, or a str holding a decimal number
\* (float() ignores surrounding whitespace)
FloatParses(cell) ==
    \/ cell.t = "num"
    \/ /\ cell.t = "str"
       /\ Strip(cell.s) # <<>>
       /\ \A i \in 1..Len(Strip(cell.s)) : Strip(cell.s)[i] \in Digits

\* int(float(cell)), defined where FloatParses: truncation toward zero
IntOfFloat(cell) ==
    IF cell.t = "num"
    THEN IF cell.tenths >= 0 THEN cell.tenths \div 10 ELSE -((-cell.tenths) \div 10)
    ELSE DecValue(Strip(cell.s))

\* json.dumps(row.to_dict()) succeeds: every cell is a str, a float or NaN
RowSerialisable(row) ==
    /\ row.extra.t # "timestamp"
    /\ \A c \in DOMAIN row.files : row.files[c].t # "timestamp"

-----------------------------------------------------------------------------
(* IdentityResolver: FileRenamer.possible_filenames, parse_column_number   *)
(* and build_spreadsheet_lookup.                                           *)

NumSlots == 20

FilePrefix == <<"F", "i", "l", "e", "#">>

\* f"File#{i}"
ColName(i) == FilePrefix \o IntStr(i)

\* a variant of possible_filenames that yields the raw name only
possible_filenamesRawOnly(name) == <<name>>

\* the generator, as the sequence of the names it yields
possible_filenames(name) ==
    <<name>>
    \o (IF Contains(name, PCT) THEN <<Replace(name, PCT, SP)>> ELSE <<>>)
    \o (IF Contains(name, SP) THEN <<Replace(name, SP, PCT)>> ELSE <<>>)

parse_column_number(col_name) == Replace(col_name, FilePrefix, <<>>)

\* lookup[k] = v
DictSet(d, k, v) == [x \in DOMAIN d \cup {k} |-> IF x = k THEN v ELSE d[x]]

EmptyDict == [x \in {} |-> 0]

\* a variant of InsertVariants that keeps the entry a key already has
\* (lookup.setdefault(variant, pair))
RECURSIVE InsertVariantsKeepFirst(_, _, _)
InsertVariantsKeepFirst(lk, variants, pair) ==
    IF variants = <<>> THEN lk
    ELSE InsertVariantsKeepFirst(
             IF Head(variants) \in DOMAIN lk THEN lk ELSE DictSet(lk, Head(variants), pair),
             Tail(variants), pair)

\* for variant in variants: lookup[variant] = pair
RECURSIVE InsertVariants(_, _, _)
InsertVariants(lk, variants, pair) ==
    IF variants = <<>> THEN lk
    ELSE InsertVariants(DictSet(lk, Head(variants), pair), Tail(variants), pair)

\* row.get(f"File#{i}", None)
RowGet(row, i) == IF i \in DOMAIN row.files THEN row.files[i] ELSE NaN

\* one pass of the body of `for i in range(1, 21)`
InsertSlot(lk, row, respondent_id, i) ==
    LET val == RowGet(row, i) IN
    IF IsStr(val) /\ Strip(val.s) # <<>>
    THEN InsertVariants(lk, possible_filenames(Strip(val.s)),
                        <<respondent_id, parse_column_number(ColName(i))>>)
    ELSE lk

\* the loop `for i in range(1, 21)`, from slot i on
RECURSIVE InsertSlots(_, _, _, _)
InsertSlots(lk, row, respondent_id, i) ==
    IF i > NumSlots THEN lk
    ELSE InsertSlots(InsertSlot(lk, row, respondent_id, i), row, respondent_id, i + 1)

-----------------------------------------------------------------------------
(* ForensicLogger.  L is the logger as its caller sees it: the session log *)
(* (L.log), the calls made (L.invoked) and whether an exception has left a *)
(* call (L.escaped).  Each call builds its payload inside try/except       *)
(* Exception and hands one message to the session's file handler, from the *)
(* try body or from the except branch.                                     *)

Logger(lg, inv, esc) == [log |-> lg, invoked |-> inv, escaped |-> esc]

\* the call returns after appending `line`
Emit(L, call, line) == Logger(Append(L.log, line), Append(L.invoked, call), L.escaped)

NoFile == [exists |-> FALSE]
File(content, size) == [exists |-> TRUE, content |-> content, size |-> size]

\* compute_file_hash: both digests are functions of the bytes read
compute_file_hash(content) == [sha256 |-> <<"sha256", content>>, md5 |-> <<"md5", content>>]

\* the message of the except branch: logger.error(f"Error logging ...: {e}")
ErrorLine(what) == [level |-> "ERROR", kind |-> "error", what |-> what]

\* a variant of log_file_event without the except branch: the exception of
\* os.stat, of the hashing or of json.dumps leaves the call
log_file_eventUncaught(L, event_type, filepath, details, file) ==
    LET call == [op |-> "log_file_event", event_type |-> event_type,
                 filepath |-> filepath, details |-> details, found |-> file.exists]
    IN  IF file.exists /\ details.json_ok
        THEN Emit(L, call, [level |-> "INFO", kind |-> "file_event",
                            event_type |-> event_type, filepath |-> filepath,
                            file_size |-> file.size,
                            hashes |-> compute_file_hash(file.content),
                            details |-> details])
        ELSE Logger(L.log, Append(L.invoked, call), TRUE)

\* log_file_event(event_type, filepath, details): `file` is what os.stat and
\* open find at filepath (NoFile when filepath is missing or is not a path)
log_file_event(L, event_type, filepath, details, file) ==
    LET call == [op |-> "log_file_event", event_type |-> event_type,
                 filepath |-> filepath, details |-> details, found |-> file.exists]
    IN  IF file.exists /\ details.json_ok
        THEN Emit(L, call, [level |-> "INFO", kind |-> "file_event",
                            event_type |-> event_type, filepath |-> filepath,
                            file_size |-> file.size,
                            hashes |-> compute_file_hash(file.content),
                            details |-> details])
        ELSE Emit(L, call, ErrorLine("file event"))

\* log_system_state(): `sampled` is whether the psutil calls succeeded
log_system_state(L, sampled) ==
    LET call == [op |-> "log_system_state"] IN
    IF sampled
    THEN Emit(L, call, [level |-> "INFO", kind |-> "system_state"])
    ELSE Emit(L, call, ErrorLine("system state"))

\* log_process_execution(command, pid, return_code): `alive` is whether
\* psutil.Process(pid) finds the process
log_process_execution(L, command, pid, return_code, alive) ==
    LET call == [op |-> "log_process_execution", pid |-> pid] IN
    IF alive
    THEN Emit(L, call, [level |-> "INFO", kind |-> "process_execution",
                        command |-> command, pid |-> pid,
                        return_code |-> return_code])
    ELSE Emit(L, call, ErrorLine("process execution"))

\* log_anomaly(anomaly_type, details)
log_anomaly(L, anomaly_type, details) ==
    LET call == [op |-> "log_anomaly", anomaly_type |-> anomaly_type,
                 details |-> details]
    IN  IF details.json_ok
        THEN Emit(L, call, [level |-> "WARNING", kind |-> "anomaly",
                            anomaly_type |-> anomaly_type, details |-> details])
        ELSE Emit(L, call, ErrorLine("anomaly"))

\* details dicts of str, int and bool values, which json.dumps accepts
Details(d) == [json_ok |-> TRUE, d |-> d]
NoDetails == Details(<<>>)

-----------------------------------------------------------------------------
(* The inputs of a run: mapping rows and an input tree.                    *)

MaxRows  == 2    \* rows of the mapping table
MaxFiles == 2    \* files of the input tree

NSpace == <<"a", " ", "b", ".", "p">>                 \* "a b.p"
NPct   == <<"a", "%", "2", "0", "b", ".", "p">>       \* "a%20b.p"
NMixed == <<"a", " ", "b", "%", "2", "0", "c", ".", "p">>            \* "a b%20c.p"
NDec   == <<"a", " ", "b", " ", "c", ".", "p">>                      \* "a b c.p"
NEnc   == <<"a", "%", "2", "0", "b", "%", "2", "0", "c", ".", "p">>  \* "a%20b%20c.p"
DSStore == <<".", "D", "S", "_", "S", "t", "o", "r", "e">>
GitKeep == <<".", "g", "i", "t", "k", "e", "e", "p">>
Hidden  == <<".", "h">>

Row(rid, files, extra) == [rid |-> rid, files |-> files, extra |-> extra]

\* The rows a mapping table is made of.  File cells outside File#1..File#20,
\* blank cells, numeric cells and padded names are in the first row; a date
\* column (extra) is a Timestamp when the sheet is an .xlsx with date cells.
Rows ==
    { Row(Num(10), (1 :> Str(SP \o NSpace \o SP)) @@ (2 :> Str(SP \o SP))
                   @@ (3 :> Num(50)) @@ (21 :> Str(NPct)), Str(<<"x">>)),
      Row(Num(110), (1 :> Str(NSpace)) @@ (20 :> Str(NPct)), Str(<<"x">>)),
      Row(Num(110), (1 :> Str(NMixed)) @@ (2 :> Str(NDec)), Str(<<"x">>)),
      Row(Num(10), (11 :> Str(NSpace)), Str(<<"x">>)),
      Row(NaN, (1 :> Str(NSpace)), Str(<<"x">>)),
      Row(NaN, (1 :> Str(NSpace)), Timestamp),
      Row(Str(<<"a", "b", "c">>), (1 :> Str(NSpace)), Str(<<"x">>)) }

Root == "."
Sub  == "sub"

InFile(dir, name) == [dir |-> dir, name |-> name]

\* The files an input tree is made of.
Files ==
    { InFile(Root, NSpace), InFile(Root, NPct), InFile(Sub, NSpace),
      InFile(Root, NMixed), InFile(Root, DSStore), InFile(Root, Hidden) }

\* every input file has its own bytes
ContentOf(f) == <<f.dir, f.name>>

-----------------------------------------------------------------------------
(* CanonicalNamer: the naming lines of FileRenamer.rename_files.          *)

None == <<>>

\* spreadsheet_lookup.get(fname, None)
DictGet(d, k) == IF k \in DOMAIN d THEN d[k] ELSE None

\* `if match:` -- None and the empty tuple are false
Truthy(x) == x # None

RPrefix      == <<"R">>
Dash         == <<"-">>
NoRespPrefix == <<"N", "O", "R", "E", "S", "P", "I", "D", "_">>
SkippedMark  == <<"SKIPPED (hidden/system)">>

\* a variant of MatchedName without the separator
MatchedNameNoDash(respondent_id, col_num, ext) ==
    RPrefix \o IntStr(respondent_id) \o col_num \o ext

\* f"R{respondent_id}-{col_num}{ext}"
MatchedName(respondent_id, col_num, ext) ==
    RPrefix \o IntStr(respondent_id) \o Dash \o col_num \o ext

\* a variant of UnmatchedName that keeps the spaces of the basename
UnmatchedNameKeepSpaces(base, ext) == NoRespPrefix \o base \o ext

\* cleaned_fname = base.replace(" ", "_") + ext; f"NORESPID_{cleaned_fname}"
UnmatchedName(base, ext) == NoRespPrefix \o Replace(base, SP, US) \o ext

\* lines 86-95: the new name of fname under the lookup lk
NewName(lk, fname) ==
    LET base  == SplitExt(fname)[1]
        ext   == SplitExt(fname)[2]
        match == DictGet(lk, fname)
    IN  IF Truthy(match) THEN MatchedName(match[1], match[2], ext)
        ELSE UnmatchedName(base, ext)

\* os.path.join(output_subdir, new_name), output_subdir mirroring the input dir
NewPath(dir, new_name) == <<dir, new_name>>

ExcludedNames == {DSStore, GitKeep}

NoCsv == [written |-> FALSE]
Csv(rows) == [written |-> TRUE, rows |-> rows]

-----------------------------------------------------------------------------
(* FileRenamer.rename_files as a state machine.                            *)

NoSession == <<>>

\* no process has created a ForensicLogger on the shared log directory
SessionsIdle ==
    /\ now = 0
    /\ session = <<>>
    /\ log_dir = EmptyDict

\* no TextExtractor has been constructed
ExtractionIdle ==
    /\ tree = <<>>
    /\ writable = TRUE
    /\ force = FALSE
    /\ cur = None
    /\ extracted = {}
    /\ ended = <<>>

\* no extractor processes are running side by side
RaceIdle ==
    /\ racers = <<>>
    /\ last_writer = 0

\* no SurveyMonkeyEnricher, ForensicAnalyzer or ProcessingValidator has been
\* constructed
\* no WhisperTranscriber or YouTubeProcessor has been constructed and the
\* legacy script has not been started
StagesIdle == wsp = <<>> /\ ytb = <<>> /\ leg = <<>> /\ rnm = <<>>

DownstreamIdle == enr = <<>> /\ ana = <<>> /\ vld = <<>> /\ StagesIdle

OthersIdle == SessionsIdle /\ ExtractionIdle /\ RaceIdle /\ DownstreamIdle

Init ==
    /\ pc = "start"
    /\ df = <<>>
    /\ lookup = EmptyDict
    /\ visited = <<>>
    /\ named = <<>>
    /\ outputs = EmptyDict
    /\ clobbered = {}
    /\ filename_mappings = <<>>
    /\ csv = NoCsv
    /\ log = <<>>
    /\ invoked = <<>>
    /\ escaped = FALSE
    /\ OthersIdle

\* self.logger before and after the calls of a step
Self == Logger(log, invoked, escaped)
Commit(L) == log' = L.log /\ invoked' = L.invoked /\ escaped' = L.escaped

\* the `except Exception` of rename_files (lines 132-135) and the closing
\* log_system_state (line 137)
ProcessError(L) == log_system_state(log_anomaly(L, "process_error", NoDetails), TRUE)

\* lines 53-66: the opening snapshot and the read of the mapping file.
\* suffix is the mapping file's suffix, readable whether pandas can read it.
Start ==
    /\ pc = "start"
    /\ \E suffix \in {"csv", "xlsx", "other"}, readable \in BOOLEAN :
        LET L == log_system_state(Self, TRUE) IN
        IF suffix = "other"
        THEN /\ Commit(log_anomaly(L, "invalid_mapping_file", NoDetails))
             /\ pc' = "done"
        ELSE IF ~readable
        THEN /\ Commit(ProcessError(L))
             /\ pc' = "done"
        ELSE /\ Commit(L)
             /\ pc' = "build"
    /\ UNCHANGED <<df, lookup, visited, named, outputs, clobbered,
                   filename_mappings, csv>>
    /\ UNCHANGED Others

\* lines 33-48: one iteration of `for _, row in df.iterrows()`.  A row
\* without Respondent ID is logged and skipped; int(float(...)) of an
\* unparseable one raises ValueError, which leaves build_spreadsheet_lookup
\* and is caught by the except of rename_files.
BuildRow ==
    /\ pc = "build"
    /\ Len(df) < MaxRows
    /\ \E row \in Rows :
        /\ df' = Append(df, row)
        /\ IF IsNa(row.rid)
           THEN /\ Commit(log_anomaly(Self, "missing_respondent_id",
                                      [json_ok |-> RowSerialisable(row), d |-> row]))
                /\ UNCHANGED <<lookup, pc>>
           ELSE IF ~FloatParses(row.rid)
           THEN /\ Commit(ProcessError(Self))
                /\ lookup' = EmptyDict
                /\ pc' = "done"
           ELSE /\ lookup' = InsertSlots(lookup, row, IntOfFloat(row.rid), 1)
                /\ UNCHANGED <<log, invoked, escaped, pc>>
    /\ UNCHANGED <<visited, named, outputs, clobbered, filename_mappings, csv>>
    /\ UNCHANGED Others

\* line 49 and 69: iterrows is exhausted, the lookup is returned
BuildEnd ==
    /\ pc = "build"
    /\ pc' = "walk"
    /\ UNCHANGED <<df, lookup, visited, named, outputs, clobbered,
                   filename_mappings, csv, log, invoked, escaped>>
    /\ UNCHANGED Others

Seen(f) == \E i \in 1..Len(visited) : visited[i] = f

\* os.makedirs(output_subdir, exist_ok=True) cannot fail on a directory that
\* exists: the output root (made by __init__) or one made for an earlier file
DirExists(dir) == dir = Root \/ \E i \in 1..Len(named) : named[i].file.dir = dir

\* shutil.copy2(file_path, new_path) into the output tree
CopyInto(out, new_path, f) == DictSet(out, new_path, f)

\* lines 76-116: the body of the walk for one file.  os.walk is top-down: the
\* files of the input root come before those of its sub-directory.
\*   mkdir_ok: os.makedirs succeeds;  copy_ok: shutil.copy2 succeeds;
\*   in_cwd: a file named fname exists in the working directory (the hidden
\*   file is logged by its bare name, line 81).
\* A flag that the branch taken for f does not read is held at one value.
WalkFile ==
    /\ pc = "walk"
    /\ Len(visited) < MaxFiles
    /\ \E f \in Files, mkdir_ok \in BOOLEAN, copy_ok \in BOOLEAN, in_cwd \in BOOLEAN :
        /\ ~Seen(f)
        /\ f.dir = Root => \A i \in 1..Len(visited) : visited[i].dir = Root
        /\ in_cwd => (f.name \notin ExcludedNames /\ f.name[1] = ".")
        /\ ~mkdir_ok => (f.name[1] # "." /\ ~DirExists(f.dir))
        /\ ~copy_ok => (f.name[1] # "." /\ (DirExists(f.dir) \/ mkdir_ok))
        /\ visited' = Append(visited, f)
        /\ IF f.name \in ExcludedNames
           THEN UNCHANGED <<named, outputs, clobbered, filename_mappings,
                            log, invoked, escaped, pc>>
           ELSE IF StartsWith(f.name, <<".">>)
           THEN /\ Commit(log_file_event(Self, "skip_hidden_file", f.name, NoDetails,
                                         IF in_cwd THEN File(ContentOf(f), 1) ELSE NoFile))
                /\ filename_mappings' = Append(filename_mappings, <<f.name, SkippedMark>>)
                /\ UNCHANGED <<named, outputs, clobbered, pc>>
           ELSE
             LET match    == DictGet(lookup, f.name)
                 new_name == NewName(lookup, f.name)
                 new_path == NewPath(f.dir, new_name)
                 made     == DirExists(f.dir) \/ mkdir_ok
                 entry    == [file |-> f, match |-> match, new_name |-> new_name,
                              new_path |-> new_path, copied |-> made /\ copy_ok]
             IN
             /\ named' = Append(named, entry)
             /\ IF ~made
                THEN \* OSError from makedirs is outside the inner try
                     /\ Commit(ProcessError(Self))
                     /\ pc' = "done"
                     /\ UNCHANGED <<outputs, clobbered, filename_mappings>>
                ELSE IF copy_ok
                THEN /\ outputs' = CopyInto(outputs, new_path, f)
                     /\ clobbered' = IF new_path \in DOMAIN outputs /\ outputs[new_path] # f
                                     THEN clobbered \cup {new_path} ELSE clobbered
                     /\ Commit(log_file_event(Self, "file_renamed", new_path,
                                   Details([original |-> f, has_mapping |-> Truthy(match)]),
                                   File(ContentOf(f), 1)))
                     /\ filename_mappings' = Append(filename_mappings, <<f.name, new_name>>)
                     /\ UNCHANGED pc
                ELSE /\ Commit(log_anomaly(Self, "rename_error",
                                   Details([file |-> f, new_name |-> new_name])))
                     /\ UNCHANGED <<outputs, clobbered, filename_mappings, pc>>
    /\ UNCHANGED <<df, lookup, csv>>
    /\ UNCHANGED Others

CsvPath == <<"rename_mapping.csv">>

\* lines 118-137: the walk is over; the mapping CSV is written and logged,
\* then the closing snapshot.  csv_ok: the CSV file can be opened and written.
Finish ==
    /\ pc = "walk"
    /\ \E csv_ok \in BOOLEAN :
        IF csv_ok
        THEN /\ csv' = Csv(filename_mappings)
             /\ Commit(log_system_state(
                          log_file_event(Self, "mapping_saved", CsvPath,
                              Details([total_files |-> Len(filename_mappings)]),
                              File(filename_mappings, 1)), TRUE))
        ELSE /\ csv' = csv
             /\ Commit(ProcessError(Self))
    /\ pc' = "done"
    /\ UNCHANGED <<df, lookup, visited, named, outputs, clobbered, filename_mappings>>
    /\ UNCHANGED Others

\* __main__, lines 148-154: the input directory or the mapping file does not
\* exist; the error is printed and the process exits with status 1 before a
\* FileRenamer is constructed.
Refuse ==
    /\ pc = "start"
    /\ pc' = "refused"
    /\ UNCHANGED <<df, lookup, visited, named, outputs, clobbered,
                   filename_mappings, csv, log, invoked, escaped>>
    /\ UNCHANGED Others

\* the exit status of file_renamer.py once it has ended: sys.exit(1) in
\* __main__, and 0 when rename_files has returned (line 157 is the last one)
ExitStatus(at) == IF at = "refused" THEN 1 ELSE 0

Next == Refuse \/ Start \/ BuildRow \/ BuildEnd \/ WalkFile \/ Finish

Spec == Init /\ [][Next]_vars

-----------------------------------------------------------------------------
(* ForensicAnalyzer: the reader of a session log.                          *)

\* the texts load_logs looks for in a message, in the order of its tests
SystemStateText == <<"S", "y", "s", "t", "e", "m", " ", "S", "t", "a", "t", "e">>
AnomalyText     == <<"A", "n", "o", "m", "a", "l", "y", " ",
                     "D", "e", "t", "e", "c", "t", "e", "d">>
ProcessText     == <<"P", "r", "o", "c", "e", "s", "s", " ",
                     "E", "x", "e", "c", "u", "t", "i", "o", "n">>

\* lines 33-39 on a text: `in` is a substring test on the whole message
MarkerIn(text) ==
    IF Contains(text, SystemStateText) THEN "System State"
    ELSE IF Contains(text, AnomalyText) THEN "Anomaly Detected"
    ELSE IF Contains(text, ProcessText) THEN "Process Execution"
    ELSE "none"

\* a line of a session file that no ForensicLogger call wrote:
\*   "short"  a line with fewer than three ' - ' separated parts,
\*   "json"   a line whose message is JSON other than an event object:
\*            a number, or an object without the keys of an event
ShortLine == [level |-> "INFO", kind |-> "short"]
JsonLine(value) == [level |-> "INFO", kind |-> "json", value |-> value]

\* the branch of lines 33-40 a message takes.  The messages of the logger
\* start with their marker; the JSON of a file event holds its file path, in
\* which the markers are looked for as well; the messages of the except
\* branches ("Error logging system state: ...") are in lower case
Marker(rec) ==
    CASE rec.kind = "system_state"      -> "System State"
      [] rec.kind = "anomaly"           -> "Anomaly Detected"
      [] rec.kind = "process_execution" -> "Process Execution"
      [] rec.kind = "file_event"        -> MarkerIn(rec.filepath)
      [] OTHER                          -> "none"

\* lines 27-29: the line has its three parts
Splits(rec) == rec.kind # "short"

\* json.loads of the message without its marker: the messages built by
\* json.dumps and the foreign JSON parse; on any other the exception is
\* caught and the line skipped
JsonLoads(rec) == rec.kind # "error"

\* load_logs over the lines of one session file
load_logs(lg) ==
    LET Parsed(marker) ==
            SelectSeq(lg, LAMBDA r : Splits(r) /\ Marker(r) = marker /\ JsonLoads(r))
    IN  [system_states      |-> Parsed("System State"),
         anomalies          |-> Parsed("Anomaly Detected"),
         process_executions |-> Parsed("Process Execution"),
         events             |-> Parsed("none")]

\* `'event_type' in event`: a TypeError on a number, false on an object
\* without the key
IsNumber(event) == event.kind = "json" /\ event.value = "number"
IsEvent(event)  == event.kind = "file_event"

\* analyze_file_operations: operation_counts[t], 0 standing for an absent key
operation_count(events, t) ==
    Cardinality({i \in 1..Len(events) : IsEvent(events[i]) /\ events[i].event_type = t})

\* hash_occurrences[sha256]: the filepath of every event with that hash, in
\* order (line 57)
hash_occurrences(events, sha256) ==
    LET with == SelectSeq(events, LAMBDA e : IsEvent(e) /\ e.hashes.sha256 = sha256)
    IN  [i \in 1..Len(with) |-> with[i].filepath]

\* line 69: the hashes with more than one occurrence
duplicate_files(events) ==
    LET hashes == {events[i].hashes.sha256 : i \in {k \in 1..Len(events) : IsEvent(events[k])}}
    IN  [h \in {x \in hashes : Len(hash_occurrences(events, x)) > 1} |->
            hash_occurrences(events, h)]

\* lines 59-65: the events of type 'write' whose file_size is 0
suspicious_operations(events) ==
    LET zero == SelectSeq(events, LAMBDA e : IsEvent(e) /\ e.event_type = "write"
                                             /\ e.file_size = 0)
    IN  [i \in 1..Len(zero) |->
            [type |-> "zero_byte_write", filepath |-> zero[i].filepath,
             timestamp |-> zero[i].timestamp]]

Raised == [raised |-> TRUE]

\* lines 45-71
analyze_file_operations(events) ==
    IF \E i \in 1..Len(events) : IsNumber(events[i])
    THEN Raised
    ELSE [raised |-> FALSE,
          duplicate_files |-> duplicate_files(events),
          suspicious_operations |-> suspicious_operations(events),
          operations |-> Cardinality({i \in 1..Len(events) : IsEvent(events[i])})]

\* lines 73-96: df['cpu_percent'] is a KeyError when no loaded state has the key
analyze_system_behavior(system_states) ==
    IF system_states # <<>> /\ \A i \in 1..Len(system_states) : system_states[i].kind # "system_state"
    THEN Raised
    ELSE [raised |-> FALSE, states |-> Len(system_states)]

\* lines 103-116: the entry of the timeline made of an event or an anomaly
TimelineEntry(type, rec) == [timestamp |-> rec.timestamp, type |-> type, details |-> rec]

\* line 119: list.sort(key=...) is stable; the ISO timestamps of one clock
\* compare as the instants they stand for
RECURSIVE SortedInsert(_, _)
SortedInsert(sorted, entry) ==
    IF sorted = <<>> THEN <<entry>>
    ELSE IF sorted[Len(sorted)].timestamp <= entry.timestamp THEN Append(sorted, entry)
    ELSE Append(SortedInsert(SubSeq(sorted, 1, Len(sorted) - 1), entry), sorted[Len(sorted)])

RECURSIVE SortByTimestamp(_)
SortByTimestamp(timeline) ==
    IF timeline = <<>> THEN <<>>
    ELSE SortedInsert(SortByTimestamp(SubSeq(timeline, 1, Len(timeline) - 1)),
                      timeline[Len(timeline)])

\* lines 98-120: event['timestamp'] of every loaded event and anomaly
generate_timeline(events, anomalies) ==
    IF \E i \in 1..Len(events) : ~IsEvent(events[i])
    THEN Raised
    ELSE [raised |-> FALSE,
          timeline |-> SortByTimestamp(
              [i \in 1..Len(events) |-> TimelineEntry("file_operation", events[i])]
              \o [i \in 1..Len(anomalies) |-> TimelineEntry("anomaly", anomalies[i])])]

-----------------------------------------------------------------------------
(* The ForensicLogger of one process called directly, with any arguments   *)
(* and any state of the file system.                                       *)

MaxCalls == 3

EventTypes == {"write", "json_saved"}
LogPath == <<"o", ".", "j">>
LogFile == File(<<"b">>, 1)
Unserialisable == [json_ok |-> FALSE, d |-> <<>>]

InitLog ==
    /\ pc = "logging"
    /\ df = <<>>
    /\ lookup = EmptyDict
    /\ visited = <<>>
    /\ named = <<>>
    /\ outputs = EmptyDict
    /\ clobbered = {}
    /\ filename_mappings = <<>>
    /\ csv = NoCsv
    /\ log = <<>>
    /\ invoked = <<>>
    /\ escaped = FALSE
    /\ OthersIdle

Renamer == <<pc, df, lookup, visited, named, outputs, clobbered,
             filename_mappings, csv>>

\* log_file_event(event_type, filepath, details): filepath is a path or None;
\* the file is there or not when os.stat and open look for it
LogFileEvent ==
    /\ pc = "logging"
    /\ Len(invoked) < MaxCalls
    /\ \E event_type \in EventTypes, filepath \in {LogPath, None},
          file \in {LogFile, NoFile}, details \in {NoDetails, Unserialisable} :
        /\ filepath = None => file = NoFile
        /\ Commit(log_file_event(Self, event_type, filepath, details, file))
    /\ UNCHANGED Renamer
    /\ UNCHANGED Others

LogSystemState ==
    /\ pc = "logging"
    /\ Len(invoked) < MaxCalls
    /\ \E sampled \in BOOLEAN : Commit(log_system_state(Self, sampled))
    /\ UNCHANGED Renamer
    /\ UNCHANGED Others

LogAnomaly ==
    /\ pc = "logging"
    /\ Len(invoked) < MaxCalls
    /\ \E details \in {NoDetails, Unserialisable} :
        Commit(log_anomaly(Self, "pdf_error", details))
    /\ UNCHANGED Renamer
    /\ UNCHANGED Others

LogProcessExecution ==
    /\ pc = "logging"
    /\ Len(invoked) < MaxCalls
    /\ \E alive \in BOOLEAN :
        Commit(log_process_execution(Self, <<"c">>, 1, 0, alive))
    /\ UNCHANGED Renamer
    /\ UNCHANGED Others

NextLog == LogFileEvent \/ LogSystemState \/ LogAnomaly \/ LogProcessExecution

SpecLog == InitLog /\ [][NextLog]_vars

-----------------------------------------------------------------------------
(* Several processes, each creating one ForensicLogger on the same log     *)
(* directory (every service passes "/output/logs") and logging through it. *)

MaxTicks == 3
MaxLines == 3

\* the clock ticks twice a second
TicksPerSecond == 2

Procs == {1, 2}

\* datetime.now().strftime('%Y%m%d_%H%M%S'): the wall clock cut to the second
session_id(t) == NatStr(t \div TicksPerSecond)

\* os.path.join(log_dir, f'forensic_{self.session_id}.log')
log_file(sid) == <<"forensic_">> \o sid \o <<".log">>

\* a FileHandler opened with mode 'w': an existing file is emptied
OpenTruncate(dir, name) == DictSet(dir, name, <<>>)

\* logging.FileHandler(log_file): the file is opened at once in the default
\* mode 'a', which creates it when absent and keeps its lines otherwise
OpenAppend(dir, name) ==
    IF name \in DOMAIN dir THEN dir ELSE DictSet(dir, name, <<>>)

\* the handler writes one formatted line at the end of its file
HandlerEmit(dir, name, line) == DictSet(dir, name, Append(dir[name], line))

\* the number of lines in the log directory
Lines(dir) ==
    LET RECURSIVE Sum(_)
        Sum(S) == IF S = {} THEN 0
                  ELSE LET f == CHOOSE x \in S : TRUE IN Len(dir[f]) + Sum(S \ {f})
    IN  Sum(DOMAIN dir)

\* the state of single runs, which the processes of SpecSessions leave alone
OneRun == <<pc, df, lookup, visited, named, outputs, clobbered,
            filename_mappings, csv, log, invoked, escaped, Extraction, Race,
            Downstream>>

InitSessions ==
    /\ pc = "sessions"
    /\ df = <<>>
    /\ lookup = EmptyDict
    /\ visited = <<>>
    /\ named = <<>>
    /\ outputs = EmptyDict
    /\ clobbered = {}
    /\ filename_mappings = <<>>
    /\ csv = NoCsv
    /\ log = <<>>
    /\ invoked = <<>>
    /\ escaped = FALSE
    /\ now = 0
    /\ session = [p \in Procs |-> NoSession]
    /\ log_dir = EmptyDict
    /\ ExtractionIdle
    /\ RaceIdle
    /\ DownstreamIdle

Tick ==
    /\ pc = "sessions"
    /\ now < MaxTicks
    /\ now' = now + 1
    /\ UNCHANGED <<session, log_dir>>
    /\ UNCHANGED OneRun

\* ForensicLogger.__init__ in process p (lines 19-32)
CreateLogger ==
    /\ pc = "sessions"
    /\ \E p \in Procs :
        /\ session[p] = NoSession
        /\ session' = [session EXCEPT ![p] = session_id(now)]
        /\ log_dir' = OpenAppend(log_dir, log_file(session_id(now)))
    /\ UNCHANGED now
    /\ UNCHANGED OneRun

\* a log_* call of process p hands one message to its handler
ProcessLogs ==
    /\ pc = "sessions"
    /\ Lines(log_dir) < MaxLines
    /\ \E p \in Procs :
        /\ session[p] # NoSession
        /\ log_dir' = HandlerEmit(log_dir, log_file(session[p]),
                                  [pid |-> p, n |-> Lines(log_dir)])
    /\ UNCHANGED <<now, session>>
    /\ UNCHANGED OneRun

NextSessions == Tick \/ CreateLogger \/ ProcessLogs

SpecSessions == InitSessions /\ [][NextSessions]_vars

-----------------------------------------------------------------------------
(* Several ForensicLogger instances created in one process.  Each          *)
(* __init__ takes the one logger logging.getLogger('forensic_logger') of   *)
(* the process and adds its own FileHandler to it.                         *)

Instances == {1, 2}

\* the handlers of the shared logger, in the order they were added: one per
\* instance created so far (the second instance is created after the first)
Handlers(sess) ==
    LET made == {q \in Instances : sess[q] # NoSession} IN
    [k \in 1..Cardinality(made) |-> log_file(sess[k])]

\* Logger.callHandlers: the record goes to every handler of the logger
RECURSIVE CallHandlers(_, _, _)
CallHandlers(dir, handlers, line) ==
    IF handlers = <<>> THEN dir
    ELSE CallHandlers(HandlerEmit(dir, Head(handlers), line), Tail(handlers), line)

InitInstances ==
    /\ pc = "instances"
    /\ df = <<>>
    /\ lookup = EmptyDict
    /\ visited = <<>>
    /\ named = <<>>
    /\ outputs = EmptyDict
    /\ clobbered = {}
    /\ filename_mappings = <<>>
    /\ csv = NoCsv
    /\ log = <<>>
    /\ invoked = <<>>
    /\ escaped = FALSE
    /\ now = 0
    /\ session = [p \in Instances |-> NoSession]
    /\ log_dir = EmptyDict
    /\ ExtractionIdle
    /\ RaceIdle
    /\ DownstreamIdle

\* time passes in the process
ITick ==
    /\ pc = "instances"
    /\ now < MaxTicks
    /\ now' = now + 1
    /\ UNCHANGED <<session, log_dir>>
    /\ UNCHANGED OneRun

\* ForensicLogger.__init__ (lines 16-32) for the next instance
CreateInstance ==
    /\ pc = "instances"
    /\ \E p \in Instances :
        /\ session[p] = NoSession
        /\ \A q \in Instances : q < p => session[q] # NoSession
        /\ session' = [session EXCEPT ![p] = session_id(now)]
        /\ log_dir' = OpenAppend(log_dir, log_file(session_id(now)))
    /\ UNCHANGED now
    /\ UNCHANGED OneRun

\* a log_* call through instance p: self.logger.info(...) on the shared logger
InstanceLogs ==
    /\ pc = "instances"
    /\ Lines(log_dir) < MaxLines
    /\ \E p \in Instances :
        /\ session[p] # NoSession
        /\ log_dir' = CallHandlers(log_dir, Handlers(session),
                                   [pid |-> p, n |-> Lines(log_dir)])
    /\ UNCHANGED <<now, session>>
    /\ UNCHANGED OneRun

NextInstances == ITick \/ CreateInstance \/ InstanceLogs

SpecInstances == InitInstances /\ [][NextInstances]_vars

-----------------------------------------------------------------------------
(* TextExtractor.process_files, run over an input tree and run again over  *)
(* the same tree.  FilenamingUtility is imported from file_renamer but not *)
(* defined there: its get_output_filename follows the CanonicalName of the *)
(* specification (a matched file is R<respondentId>-<slotNumber><ext>, an  *)
(* unmatched one NORESPID_<basename with underscores><ext>).               *)

MaxTree == 2    \* files of the extractor's input tree

NDoc     == <<"a", " ", "b", ".", "p", "d", "f">>     \* "a b.pdf"
NBlank   == <<"n", ".", "P", "D", "F">>               \* "n.PDF"
NCorrupt == <<"c", ".", "d", "o", "c", "x">>          \* "c.docx"
NMacro   == <<"m", ".", "d", "o", "c", "x">>          \* "m.docx"
NHidden  == <<".", "h", ".", "p", "d", "f">>          \* ".h.pdf"
NOther   == <<"t", ".", "t", "x", "t">>               \* "t.txt"

PdfExt  == <<".", "p", "d", "f">>
DocxExt == <<".", "d", "o", "c", "x">>
JsonExt == <<".", "j", "s", "o", "n">>

\* str.lower(), on the letters of the names above
Lower(str) ==
    [i \in 1..Len(str) |-> CASE str[i] = "P" -> "p"
                             [] str[i] = "D" -> "d"
                             [] str[i] = "F" -> "f"
                             [] OTHER        -> str[i]]

\* An input file and what is behind its name:
\*   "text"      a document with text,
\*   "macros"    a .docx with text and VBA macros,
\*   "blank"     a document that opens and has no text (a scanned PDF),
\*   "corrupt"   bytes the extraction library rejects,
\*   "dangling"  a symbolic link whose target is gone: os.walk lists it,
\*               os.stat and open fail on it.
XFile(dir, name, body) == [dir |-> dir, name |-> name, body |-> body]

XFiles ==
    { XFile(Root, NDoc, "dangling"), XFile(Sub, NDoc, "text"),
      XFile(Root, NBlank, "blank"),  XFile(Root, NCorrupt, "corrupt"),
      XFile(Root, NMacro, "macros"), XFile(Root, NHidden, "text"),
      XFile(Root, DSStore, "text"),  XFile(Root, NOther, "text") }

\* the input trees: os.walk yields each file once, those of the input root
\* before those of its sub-directory
Trees ==
    { t \in UNION {[1..n -> XFiles] : n \in 0..MaxTree} :
        \A i, j \in DOMAIN t :
            i < j => /\ t[i] # t[j]
                     /\ t[j].dir = Root => t[i].dir = Root }

\* file_path = os.path.join(root, fname)
FilePath(f) == <<f.dir, f.name>>

\* what os.stat and the hashing find at file_path
FileOf(f) == IF f.body = "dangling" THEN NoFile ELSE File(<<f.dir, f.name>>, 1)

\* fitz.open / VBA_Parser / Document succeed on the file
Opens(f) == f.body \in {"text", "macros", "blank"}

\* the text of the pages or paragraphs
TextOf(f) == IF f.body = "blank" THEN <<>> ELSE <<f.dir, f.name, "text">>

\* the mapping row behind the lookup of the runs
XRow == Row(Num(420), (1 :> Str(NDoc)), Str(<<"x">>))

\* FilenamingUtility(mapping_file, enable_renaming): the lookup of the mapping
XLookup == InsertSlots(EmptyDict, XRow, IntOfFloat(XRow.rid), 1)

\* FilenamingUtility.get_output_filename(fname, '.json'):
\* <<new_filename, respondent_id, col_num>>
get_output_filename(lk, fname, out_ext) ==
    LET match == DictGet(lk, fname) IN
    IF Truthy(match)
    THEN <<MatchedName(match[1], match[2], out_ext), match[1], match[2]>>
    ELSE <<UnmatchedName(SplitExt(fname)[1], out_ext), None, None>>

\* `if respondent_id:` followed by doc['respondent_id'] = respondent_id and
\* doc['file_column'] = col_num: None and 0 are false
WithRespondent(doc, rid, col_num) ==
    IF col_num # None /\ rid # 0
    THEN [respondent_id |-> rid, file_column |-> col_num] @@ doc
    ELSE doc

OutputDir == "out"

\* json_path = os.path.join(self.output_dir, str(new_filename))
JsonPath(new_filename) == <<OutputDir, new_filename>>

\* a variant of ShouldSkip that never finds the output
ShouldSkipNever(out, json_path, force_reprocess) == FALSE

\* os.path.exists(json_path) and not self.force_reprocess
ShouldSkip(out, json_path, force_reprocess) ==
    json_path \in DOMAIN out /\ ~force_reprocess

\* the file open(json_path, "w") leaves before anything is written to it
EmptyArtifact == [written |-> FALSE]

\* the file after json.dump(doc, out_f) and the close
Artifact(doc) == [written |-> TRUE, doc |-> doc]

\* sanitize_pdf(input_file): the logger after the call and the text returned
sanitize_pdf(L, f) ==
    LET started == log_file_event(L, "pdf_start", FilePath(f), NoDetails, FileOf(f)) IN
    IF Opens(f)
    THEN [L    |-> log_file_event(started, "pdf_success", FilePath(f),
                                  Details([text_length |-> Len(TextOf(f))]), FileOf(f)),
          text |-> TextOf(f)]
    ELSE [L    |-> log_anomaly(started, "pdf_error", Details([file |-> FilePath(f)])),
          text |-> None]

\* sanitize_docx(input_file)
sanitize_docx(L, f) ==
    LET started == log_file_event(L, "docx_start", FilePath(f), NoDetails, FileOf(f))
        checked == IF f.body = "macros"
                   THEN log_anomaly(started, "macro_detected", Details([file |-> FilePath(f)]))
                   ELSE started
    IN
    IF Opens(f)
    THEN [L    |-> log_file_event(checked, "docx_success", FilePath(f),
                                  Details([text_length |-> Len(TextOf(f))]), FileOf(f)),
          text |-> TextOf(f)]
    ELSE [L    |-> log_anomaly(started, "docx_error", Details([file |-> FilePath(f)])),
          text |-> None]

\* the number of the current run
Run == Len(ended) + 1

\* how a run ended and the artifacts it left
Ended(how) == [how |-> how, force |-> force, artifacts |-> DOMAIN outputs]

RenameOnly == <<df, named, clobbered, filename_mappings, csv>>

InitExtract ==
    /\ pc = "x_start"
    /\ df = <<>>
    /\ lookup = XLookup
    /\ visited = <<>>
    /\ named = <<>>
    /\ outputs = EmptyDict
    /\ clobbered = {}
    /\ filename_mappings = <<>>
    /\ csv = NoCsv
    /\ log = <<>>
    /\ invoked = <<>>
    /\ escaped = FALSE
    /\ SessionsIdle
    /\ tree \in Trees
    /\ writable \in BOOLEAN
    /\ force = FALSE
    /\ cur = None
    /\ extracted = {}
    /\ ended = <<>>
    /\ RaceIdle
    /\ DownstreamIdle

\* __init__ (lines 12-22) and line 26: the run takes its force flag and logs
\* the opening snapshot
XStart ==
    /\ pc = "x_start"
    /\ \E force_reprocess \in BOOLEAN : force' = force_reprocess
    /\ Commit(log_system_state(Self, TRUE))
    /\ pc' = "x_walk"
    /\ UNCHANGED <<lookup, visited, outputs, tree, writable, cur, extracted, ended>>
    /\ UNCHANGED <<RenameOnly, Sessions, Race, Downstream>>

\* lines 28-50: the walk yields the next file; it is passed over, skipped as
\* already done, or handed to the extraction
XWalk ==
    /\ pc = "x_walk"
    /\ Len(visited) < Len(tree)
    /\ LET f   == tree[Len(visited) + 1]
           out == get_output_filename(lookup, f.name, JsonExt)
       IN
       /\ visited' = Append(visited, f)
       /\ IF StartsWith(f.name, <<".">>) \/ f.name \in ExcludedNames
          THEN UNCHANGED <<log, invoked, escaped, cur, pc>>
          ELSE IF Lower(SplitExt(f.name)[2]) \notin {PdfExt, DocxExt}
          THEN UNCHANGED <<log, invoked, escaped, cur, pc>>
          ELSE IF ShouldSkip(outputs, JsonPath(out[1]), force)
          THEN /\ Commit(log_file_event(Self, "skip_existing_output", FilePath(f),
                            Details([output_path |-> JsonPath(out[1])]), FileOf(f)))
               /\ UNCHANGED <<cur, pc>>
          ELSE /\ cur' = [file |-> f, json_path |-> JsonPath(out[1]),
                          respondent_id |-> out[2], col_num |-> out[3], text |-> None]
               /\ pc' = "x_extract"
               /\ UNCHANGED <<log, invoked, escaped>>
    /\ UNCHANGED <<lookup, outputs, tree, writable, force, extracted, ended>>
    /\ UNCHANGED <<RenameOnly, Sessions, Race, Downstream>>

\* lines 52-60: sanitize_pdf or sanitize_docx, then `if text:`
XExtract ==
    /\ pc = "x_extract"
    /\ LET f == cur.file
           r == IF Lower(SplitExt(f.name)[2]) = PdfExt
                THEN sanitize_pdf(Self, f) ELSE sanitize_docx(Self, f)
       IN
       /\ Commit(r.L)
       /\ extracted' = extracted \cup {<<Run, f>>}
       /\ IF Truthy(r.text)
          THEN /\ cur' = [cur EXCEPT !.text = r.text]
               /\ pc' = "x_open"
          ELSE /\ cur' = None
               /\ pc' = "x_walk"
    /\ UNCHANGED <<lookup, visited, outputs, tree, writable, force, ended>>
    /\ UNCHANGED <<RenameOnly, Sessions, Race, Downstream>>

\* line 76: open(json_path, "w") creates or empties the file; when it cannot,
\* the OSError leaves process_files, which has no handler
XOpen ==
    /\ pc = "x_open"
    /\ IF writable
       THEN /\ outputs' = DictSet(outputs, cur.json_path, EmptyArtifact)
            /\ pc' = "x_dump"
            /\ UNCHANGED <<cur, ended>>
       ELSE /\ pc' = "x_done"
            /\ ended' = Append(ended, Ended("aborted"))
            /\ cur' = None
            /\ UNCHANGED outputs
    /\ UNCHANGED <<lookup, visited, log, invoked, escaped, tree, writable, force, extracted>>
    /\ UNCHANGED <<RenameOnly, Sessions, Race, Downstream>>

\* lines 62-82: the document is written and the file closed, then the
\* 'json_saved' event
XDump ==
    /\ pc = "x_dump"
    /\ LET doc == WithRespondent([text |-> cur.text, filename |-> cur.file.name,
                                  original_path |-> FilePath(cur.file)],
                                 cur.respondent_id, cur.col_num)
       IN
       /\ outputs' = DictSet(outputs, cur.json_path, Artifact(doc))
       /\ Commit(log_file_event(Self, "json_saved", cur.json_path,
                     Details([original_file |-> FilePath(cur.file),
                              text_length |-> Len(cur.text)]),
                     File(doc, 1)))
    /\ cur' = None
    /\ pc' = "x_walk"
    /\ UNCHANGED <<lookup, visited, tree, writable, force, extracted, ended>>
    /\ UNCHANGED <<RenameOnly, Sessions, Race, Downstream>>

\* the walk is exhausted: process_files returns
XEnd ==
    /\ pc = "x_walk"
    /\ Len(visited) = Len(tree)
    /\ pc' = "x_done"
    /\ ended' = Append(ended, Ended("done"))
    /\ UNCHANGED <<lookup, visited, outputs, log, invoked, escaped,
                   tree, writable, force, cur, extracted>>
    /\ UNCHANGED <<RenameOnly, Sessions, Race, Downstream>>

\* the process is terminated from outside, wherever it is
XKill ==
    /\ pc \in {"x_walk", "x_extract", "x_open", "x_dump"}
    /\ pc' = "x_done"
    /\ ended' = Append(ended, Ended("killed"))
    /\ cur' = None
    /\ UNCHANGED <<lookup, visited, outputs, log, invoked, escaped,
                   tree, writable, force, extracted>>
    /\ UNCHANGED <<RenameOnly, Sessions, Race, Downstream>>

\* the extractor is started again on the same input tree and mapping: a new
\* process with a new ForensicLogger and session log
XRerun ==
    /\ pc = "x_done"
    /\ Len(ended) = 1
    /\ pc' = "x_start"
    /\ visited' = <<>>
    /\ log' = <<>>
    /\ invoked' = <<>>
    /\ cur' = None
    /\ UNCHANGED <<lookup, outputs, escaped, tree, writable, force, extracted, ended>>
    /\ UNCHANGED <<RenameOnly, Sessions, Race, Downstream>>

NextExtract == XStart \/ XWalk \/ XExtract \/ XOpen \/ XDump \/ XEnd \/ XKill \/ XRerun

SpecExtract == InitExtract /\ [][NextExtract]_vars

-----------------------------------------------------------------------------
(* Two TextExtractor processes at work on the same output_dir at the same  *)
(* time, each on its own input directory or both on the same one, with an  *)
(* input file of the same name and so the same json_path.  The content of  *)
(* the output file is the sequence of blocks the processes have written:   *)
(* json.dump writes through a buffer, which reaches the file block by      *)
(* block, at the offset of the process's own file object.                  *)

MaxBlocks == 2    \* blocks of one artifact

\* the input file of a process: one of two directories holds it, and its
\* artifact takes `blocks` buffer-fulls
RaceFiles ==
    {[dir |-> d, name |-> NMacro, body |-> "text", blocks |-> n] :
        d \in {"in1", "in2"}, n \in 1..MaxBlocks}

\* the serialised document of process p for input f, block by block: the
\* text comes first, 'extraction_timestamp' is in the last block
DocOf(p, f) ==
    [i \in 1..f.blocks |-> IF i < f.blocks THEN <<"text", f.dir, i>>
                           ELSE <<"tail", f.dir, p>>]

\* a never-written stretch of a file reads as NUL bytes
Hole == <<"hole">>

\* write(block) at block offset k - 1 of a file opened without O_APPEND
WriteAt(content, k, block) ==
    [i \in 1..(IF Len(content) > k THEN Len(content) ELSE k) |->
        IF i = k THEN block
        ELSE IF i <= Len(content) THEN content[i] ELSE Hole]

RacePath == JsonPath(get_output_filename(XLookup, NMacro, JsonExt)[1])

Single == <<pc, df, lookup, visited, named, clobbered, filename_mappings, csv,
            log, invoked, escaped>>

InitRace ==
    /\ pc = "race"
    /\ df = <<>>
    /\ lookup = XLookup
    /\ visited = <<>>
    /\ named = <<>>
    /\ outputs = EmptyDict
    /\ clobbered = {}
    /\ filename_mappings = <<>>
    /\ csv = NoCsv
    /\ log = <<>>
    /\ invoked = <<>>
    /\ escaped = FALSE
    /\ SessionsIdle
    /\ ExtractionIdle
    /\ racers \in [Procs -> {[at |-> "check", file |-> f, offset |-> 0, absent |-> FALSE,
                              L |-> Logger(<<>>, <<>>, FALSE)] : f \in RaceFiles}]
    /\ racers[1].file.dir = racers[2].file.dir => racers[1].file = racers[2].file
    /\ last_writer = 0
    /\ DownstreamIdle

\* lines 26-57 in process p: the opening snapshot, the walk reaches the file,
\* the existing-output check, and the extraction when the output is absent
RCheck ==
    /\ pc = "race"
    /\ \E p \in Procs :
        /\ racers[p].at = "check"
        /\ LET opened == log_system_state(racers[p].L, TRUE)
               f      == racers[p].file
           IN
           IF ShouldSkip(outputs, RacePath, FALSE)
           THEN racers' = [racers EXCEPT
                    ![p].at = "done",
                    ![p].L  = log_file_event(opened, "skip_existing_output", FilePath(f),
                                  Details([output_path |-> RacePath]), FileOf(f))]
           ELSE racers' = [racers EXCEPT
                    ![p].at     = "open",
                    ![p].absent = TRUE,
                    ![p].L      = sanitize_docx(opened, f).L]
    /\ UNCHANGED <<outputs, last_writer>>
    /\ UNCHANGED <<Single, Sessions, Extraction, Downstream>>

\* line 76 in process p: open(json_path, "w") creates the file or empties it
ROpen ==
    /\ pc = "race"
    /\ \E p \in Procs :
        /\ racers[p].at = "open"
        /\ outputs' = DictSet(outputs, RacePath, <<>>)
        /\ racers' = [racers EXCEPT ![p].at = "write", ![p].offset = 0]
    /\ UNCHANGED last_writer
    /\ UNCHANGED <<Single, Sessions, Extraction, Downstream>>

\* line 77 in process p: one block of json.dump reaches the file
RWrite ==
    /\ pc = "race"
    /\ \E p \in Procs :
        /\ racers[p].at = "write"
        /\ LET doc == DocOf(p, racers[p].file)
               k   == racers[p].offset + 1
           IN
           /\ outputs' = DictSet(outputs, RacePath, WriteAt(outputs[RacePath], k, doc[k]))
           /\ racers' = [racers EXCEPT ![p].offset = k,
                                       ![p].at = IF k = Len(doc) THEN "close" ELSE "write"]
        /\ last_writer' = p
    /\ UNCHANGED <<Single, Sessions, Extraction, Downstream>>

\* lines 77-82 in process p: the file is closed and 'json_saved' logged
RClose ==
    /\ pc = "race"
    /\ \E p \in Procs :
        /\ racers[p].at = "close"
        /\ racers' = [racers EXCEPT
               ![p].at = "done",
               ![p].L  = log_file_event(racers[p].L, "json_saved", RacePath,
                             Details([original_file |-> FilePath(racers[p].file)]),
                             File(outputs[RacePath], Len(outputs[RacePath])))]
    /\ UNCHANGED <<outputs, last_writer>>
    /\ UNCHANGED <<Single, Sessions, Extraction, Downstream>>

NextRace == RCheck \/ ROpen \/ RWrite \/ RClose

SpecRace == InitRace /\ [][NextRace]_vars

-----------------------------------------------------------------------------
(* SurveyMonkeyEnricher.enrich_json_files over the artifacts of the output *)
(* directories, run once and then a second time on what the first left.    *)

MaxMapRows   == 2    \* rows of the enricher's mapping table
MaxArtifacts == 2    \* .json files in the output directories

Letters  == <<"a", "b", "c", "d", "e", "f", "g", "h", "i", "j", "k", "l", "m",
              "n", "o", "p", "q", "r", "s", "t", "u", "v", "w", "x", "y", "z">>
Capitals == <<"A", "B", "C", "D", "E", "F", "G", "H", "I", "J", "K", "L", "M",
              "N", "O", "P", "Q", "R", "S", "T", "U", "V", "W", "X", "Y", "Z">>

LowerOf == [c \in {Capitals[k] : k \in 1..26} |->
               Letters[CHOOSE k \in 1..26 : Capitals[k] = c]]

\* str.lower()
str_lower(s) ==
    [i \in 1..Len(s) |-> IF s[i] \in DOMAIN LowerOf THEN LowerOf[s[i]] ELSE s[i]]

Alnum == Digits \cup {Letters[k] : k \in 1..26} \cup {Capitals[k] : k \in 1..26}

\* the class [a-zA-Z0-9]
IsAlnum(c) == c \in Alnum

\* os.path.basename
Basename(s) ==
    IF \E i \in 1..Len(s) : s[i] = "/"
    THEN Drop(s, CHOOSE i \in 1..Len(s) : s[i] = "/" /\ \A j \in (i + 1)..Len(s) : s[j] # "/")
    ELSE s

\* lines 43-46: extension off, everything but letters and digits off, lower case
normalize_filename(filename) ==
    str_lower(SelectSeq(SplitExt(Basename(filename))[1], IsAlnum))

\* column names of the mapping file and keys of an artifact
RespondentIdColumn == <<"R", "e", "s", "p", "o", "n", "d", "e", "n", "t", " ", "I", "D">>
respondent_id      == <<"r", "e", "s", "p", "o", "n", "d", "e", "n", "t", "_", "i", "d">>
FilenameKey        == <<"f", "i", "l", "e", "n", "a", "m", "e">>
TextKey            == <<"t", "e", "x", "t">>
QuestionColumn     == <<"Q", "1">>

FilePattern == <<"f", "i", "l", "e">>

\* lines 225-227: both patterns are anchored at the start of the lower-cased
\* name, and the second matches whatever the first matches
IsFileColumn(col) == StartsWith(str_lower(col), FilePattern)

NPdfA  == <<"a", ".", "p", "d", "f">>          \* "a.pdf"
NDocxA == <<"a", ".", "d", "o", "c", "x">>     \* "a.docx"
NPdfB  == <<"b", ".", "p", "d", "f">>          \* "b.pdf"

\* the column sets a mapping file comes with, in column order
ColumnSets ==
    { <<RespondentIdColumn, ColName(1), QuestionColumn>>,
      <<RespondentIdColumn, ColName(1), FilenameKey, QuestionColumn>>,
      <<RespondentIdColumn, ColName(1)>>,
      <<RespondentIdColumn, QuestionColumn>> }

MapRow(rid, file1, filename, q) ==
    (RespondentIdColumn :> rid) @@ (ColName(1) :> file1)
        @@ (FilenameKey :> filename) @@ (QuestionColumn :> q)

\* the rows a mapping table is made of; a row of a table with fewer columns
\* has the cells of its columns only
MapRows ==
    { MapRow(Num(100), Str(NPdfB), Str(NPdfA), Str(<<"y">>)),
      MapRow(Num(200), Str(NPdfA), NaN, NaN),
      MapRow(NaN, Str(NPdfA), NaN, Str(<<"z">>)) }

\* the --columns lists of a run; None when the option is absent
ColumnLists == {None, <<QuestionColumn>>, <<ColName(1)>>, <<FilenameKey>>}

\* the document an extractor saved for the input file `filename`
SavedDoc(filename) == (FilenameKey :> Str(filename)) @@ (TextKey :> Str(<<"t">>))

JsonName(n) == <<n>> \o JsonExt

\* the .json files the output directories may hold: three artifacts, two of
\* them of inputs with the same basename, and an empty file
Stored ==
    { <<JsonPath(JsonName("1")), Artifact(SavedDoc(NPdfA))>>,
      <<JsonPath(JsonName("2")), Artifact(SavedDoc(NDocxA))>>,
      <<JsonPath(JsonName("3")), Artifact(SavedDoc(NPdfB))>>,
      <<JsonPath(JsonName("4")), EmptyArtifact>> }

\* sequences without repetition of at most n elements of S
Arrangements(S, n) ==
    {q \in UNION {[1..k -> S] : k \in 0..n} : \A i, j \in 1..Len(q) : i # j => q[i] # q[j]}

EndsWith(s, p) == Len(p) <= Len(s) /\ SubSeq(s, Len(s) - Len(p) + 1, Len(s)) = p

\* pd.isna(v) or v == ''
Blank(cell) == IsNa(cell) \/ (IsStr(cell) /\ cell.s = <<>>)

\* `if not respondent_id` on a cell: 0 and '' are false, NaN is true
Falsy(cell) == (cell.t = "num" /\ cell.tenths = 0) \/ (IsStr(cell) /\ cell.s = <<>>)

\* lines 171-186: the .json files in walk order, and the log call whose
\* filepath argument is the details dict
find_json_files(L, walk) ==
    [L |-> log_file_event(L, "json_files_found", None, NoDetails, NoFile),
     json_files |-> SelectSeq(walk, LAMBDA p : EndsWith(p[2], JsonExt))]

\* lines 205-221: json_file_dict from the 'filename' of every file that loads
RECURSIVE IndexFiles(_, _, _, _, _)
IndexFiles(L, d, out, json_files, i) ==
    IF i > Len(json_files) THEN [L |-> L, json_file_dict |-> d]
    ELSE LET file_path == json_files[i]
             loads     == out[file_path].written
             orig_filename ==
                 IF loads /\ FilenameKey \in DOMAIN out[file_path].doc
                 THEN out[file_path].doc[FilenameKey].s ELSE <<>>
         IN  IF ~loads
             THEN IndexFiles(log_anomaly(L, "json_read_error", Details(file_path)),
                             d, out, json_files, i + 1)
             ELSE IF orig_filename = <<>>
             THEN IndexFiles(L, d, out, json_files, i + 1)
             ELSE IndexFiles(L, DictSet(d, normalize_filename(orig_filename), file_path),
                             out, json_files, i + 1)

\* selected = ["respondent_id", "Respondent ID"] (line 82)
AlwaysSelected == <<respondent_id, RespondentIdColumn>>

InSeq(x, q) == \E i \in 1..Len(q) : q[i] = x

\* lines 85-87
available_columns(columns, file_columns) ==
    SelectSeq(columns,
              LAMBDA col : /\ \A i \in 1..Len(file_columns) :
                                  str_lower(col) # str_lower(file_columns[i])
                           /\ ~InSeq(col, AlwaysSelected))

\* lines 81-163.  The interactive session answers its own prompt with an
\* empty line, so the script prints an empty selection; spawned is whether
\* the session could be run at all.
interactive_column_selection(L, columns, file_columns, interactive, selected_columns, spawned) ==
    LET available == available_columns(columns, file_columns) IN
    IF available = <<>>
    THEN [L |-> log_file_event(L, "no_metadata_columns", None, NoDetails, NoFile),
          selected |-> AlwaysSelected]
    ELSE IF ~interactive
    THEN [L |-> L,
          selected |-> IF selected_columns # <<>>
                       THEN AlwaysSelected \o selected_columns
                       ELSE AlwaysSelected \o available]
    ELSE IF spawned
    THEN [L |-> log_file_event(L, "no_columns_selected", None, NoDetails, NoFile),
          selected |-> AlwaysSelected]
    ELSE [L |-> log_anomaly(L, "column_selection_error", NoDetails),
          selected |-> AlwaysSelected]

\* lines 252-255: the cells of the selected columns that are there
Metadata(row, columns, selected) ==
    {col \in {selected[i] : i \in 1..Len(selected)} :
        InSeq(col, columns) /\ ~Blank(row[col])}

\* lines 269-286: data['respondent_id'] and data[key] = value for every key
MergeInto(doc, rid, row, keys) ==
    [k \in DOMAIN doc \cup keys \cup {respondent_id} |->
        IF k \in keys THEN row[k]
        ELSE IF k = respondent_id THEN rid
        ELSE doc[k]]

\* lines 258-297: the file columns of one row, in column order
RECURSIVE MergeFiles(_, _, _, _, _, _, _)
MergeFiles(L, out, E, row, rid, keys, j) ==
    IF j > Len(E.file_columns) THEN [L |-> L, outputs |-> out, count |-> 0]
    ELSE LET cell == row[E.file_columns[j]] IN
         IF Blank(cell) THEN MergeFiles(L, out, E, row, rid, keys, j + 1)
         ELSE LET filename      == IF IsStr(cell) THEN cell.s ELSE <<"n">>
                  norm_name     == normalize_filename(filename)
                  matching_file == DictGet(E.json_file_dict, norm_name)
              IN  IF ~Truthy(matching_file)
                  THEN MergeFiles(L, out, E, row, rid, keys, j + 1)
                  ELSE LET data == MergeInto(out[matching_file].doc, rid, row, keys)
                           rest == MergeFiles(
                                      log_file_event(L, "json_enriched", matching_file,
                                          Details([respondent_id |-> rid,
                                                   original_filename |-> filename]),
                                          File(data, 1)),
                                      DictSet(out, matching_file, Artifact(data)),
                                      E, row, rid, keys, j + 1)
                       IN  [rest EXCEPT !.count = @ + 1]

\* the locals of enrich_json_files before the run
NoLocals == [json_file_dict |-> EmptyDict, file_columns |-> <<>>, selected |-> <<>>,
             i |-> 0, enrichment_count |-> 0]

Enricher(columns, rows, walk, interactive, selected_columns) ==
    [columns |-> columns, rows |-> rows, walk |-> walk,
     interactive |-> interactive, selected_columns |-> selected_columns,
     run |-> 1, after |-> <<>>, indexed |-> <<>>, merged |-> {}] @@ NoLocals

MappingPath == <<"mapping", "m.xlsx">>

InitEnrich ==
    /\ pc = "e_start"
    /\ df = <<>>
    /\ lookup = EmptyDict
    /\ visited = <<>>
    /\ named = <<>>
    /\ clobbered = {}
    /\ filename_mappings = <<>>
    /\ csv = NoCsv
    /\ log = <<>>
    /\ invoked = <<>>
    /\ escaped = FALSE
    /\ SessionsIdle
    /\ ExtractionIdle
    /\ RaceIdle
    /\ ana = <<>>
    /\ vld = <<>>
    /\ StagesIdle
    /\ \E columns \in ColumnSets, rows \in UNION {[1..n -> MapRows] : n \in 0..MaxMapRows},
          stored \in Arrangements(Stored, MaxArtifacts),
          interactive \in BOOLEAN, selected_columns \in ColumnLists :
        /\ interactive => selected_columns = None
        /\ \A i \in 1..Len(selected_columns) : InSeq(selected_columns[i], columns)
        /\ outputs = [p \in {stored[i][1] : i \in 1..Len(stored)} |->
                         (CHOOSE a \in Stored : a[1] = p)[2]]
        /\ enr = Enricher(columns,
                          [i \in 1..Len(rows) |->
                              [c \in {columns[k] : k \in 1..Len(columns)} |-> rows[i][c]]],
                          [i \in 1..Len(stored) |-> stored[i][1]],
                          interactive, selected_columns)

\* what an enricher run leaves alone
NotEnriched == <<df, lookup, visited, named, clobbered, filename_mappings, csv,
                 Sessions, Extraction, Race, ana, vld, Stages>>

\* lines 193-242: the mapping is loaded, the .json files are found and
\* indexed, the file columns and the selection are computed.
\*   readable: pandas can read the mapping file.
EStart ==
    /\ pc = "e_start"
    /\ \E readable \in BOOLEAN, spawned \in BOOLEAN :
        /\ ~spawned => (readable /\ enr.interactive)
        /\ IF ~readable
           THEN /\ Commit(log_anomaly(Self, "mapping_file_error", NoDetails))
                /\ pc' = "e_done"
                /\ UNCHANGED enr
           ELSE
             LET L1    == log_file_event(Self, "mapping_file_loaded", MappingPath,
                              Details([rows |-> Len(enr.rows), columns |-> enr.columns]),
                              File(enr.rows, 1))
                 found == find_json_files(L1, enr.walk)
                 index == IndexFiles(found.L, EmptyDict, outputs, found.json_files, 1)
                 file_columns == SelectSeq(enr.columns, IsFileColumn)
                 choice == interactive_column_selection(index.L, enr.columns, file_columns,
                              enr.interactive, enr.selected_columns, spawned)
             IN
             IF found.json_files = <<>>
             THEN /\ Commit(log_anomaly(found.L, "no_json_files_found", NoDetails))
                  /\ pc' = "e_done"
                  /\ UNCHANGED enr
             ELSE IF file_columns = <<>>
             THEN /\ Commit(log_anomaly(index.L, "no_file_columns_found", NoDetails))
                  /\ pc' = "e_done"
                  /\ enr' = [enr EXCEPT !.json_file_dict = index.json_file_dict]
             ELSE /\ Commit(log_file_event(choice.L, "column_selection_complete", None,
                                           NoDetails, NoFile))
                  /\ pc' = "e_rows"
                  /\ enr' = [enr EXCEPT !.json_file_dict = index.json_file_dict,
                                        !.file_columns = file_columns,
                                        !.selected = choice.selected,
                                        !.indexed = Append(@, index.json_file_dict)]
    /\ UNCHANGED outputs
    /\ UNCHANGED NotEnriched

\* lines 246-297: one iteration of `for _, row in mapping_df.iterrows()`
ERow ==
    /\ pc = "e_rows"
    /\ enr.i < Len(enr.rows)
    /\ LET row  == enr.rows[enr.i + 1]
           \* row.get('respondent_id', row.get('Respondent ID', None))
           has  == RespondentIdColumn \in DOMAIN row
           rid  == row[RespondentIdColumn]
           keys == Metadata(row, enr.columns, enr.selected)
           done == MergeFiles(Self, outputs, enr, row, rid, keys, 1)
       IN  IF ~has \/ Falsy(rid)
           THEN /\ enr' = [enr EXCEPT !.i = @ + 1]
                /\ UNCHANGED <<outputs, log, invoked, escaped>>
           ELSE /\ outputs' = done.outputs
                /\ Commit(done.L)
                /\ enr' = [enr EXCEPT !.i = @ + 1,
                                      !.enrichment_count = @ + done.count,
                                      !.merged = IF done.count > 0 THEN @ \cup keys ELSE @]
    /\ UNCHANGED pc
    /\ UNCHANGED NotEnriched

\* lines 299-302: the rows are exhausted
EEnd ==
    /\ pc = "e_rows"
    /\ enr.i = Len(enr.rows)
    /\ Commit(log_file_event(Self, "enrichment_complete", None, NoDetails, NoFile))
    /\ pc' = "e_done"
    /\ UNCHANGED <<outputs, enr>>
    /\ UNCHANGED NotEnriched

\* lines 316-328: the enricher is run a second time with the same arguments
ERerun ==
    /\ pc = "e_done"
    /\ enr.run = 1
    /\ enr' = [[k \in DOMAIN enr |-> IF k \in DOMAIN NoLocals THEN NoLocals[k] ELSE enr[k]]
                  EXCEPT !.run = 2, !.after = outputs]
    /\ pc' = "e_start"
    /\ UNCHANGED <<outputs, log, invoked, escaped>>
    /\ UNCHANGED NotEnriched

NextEnrich == EStart \/ ERow \/ EEnd \/ ERerun

SpecEnrich == InitEnrich /\ [][NextEnrich]_vars

-----------------------------------------------------------------------------
(* forensic_analysis.py run on a session file: load_logs line by line,     *)
(* then the steps of generate_report.                                       *)

MaxLog == 3    \* lines of the session file

Fresh == Logger(<<>>, <<>>, FALSE)

PathA == <<"a", ".", "j">>
PathB == <<"b", ".", "j">>
PathS == SystemStateText \o <<".", "j">>     \* "System State.j"

BytesX == <<"x">>
BytesY == <<"y">>

\* the lines a session file is made of: what the ForensicLogger calls write
\* (a file logged at its start and at its success, a second file with the
\* same bytes, one with other bytes, a file whose name holds a marker text, a
\* call that found no file, the three other calls), and foreign lines
LogLines ==
    { log_file_event(Fresh, "pdf_start", PathA, NoDetails, File(BytesX, 1)).log[1],
      log_file_event(Fresh, "pdf_success", PathA, NoDetails, File(BytesX, 1)).log[1],
      log_file_event(Fresh, "pdf_start", PathB, NoDetails, File(BytesX, 1)).log[1],
      log_file_event(Fresh, "pdf_start", PathB, NoDetails, File(BytesY, 1)).log[1],
      log_file_event(Fresh, "pdf_start", PathS, NoDetails, File(BytesX, 1)).log[1],
      log_file_event(Fresh, "pdf_start", PathA, NoDetails, NoFile).log[1],
      log_file_event(Fresh, "json_saved", PathA, NoDetails, File(<<>>, 0)).log[1],
      log_file_event(Fresh, "write", PathA, NoDetails, File(<<>>, 0)).log[1],
      log_file_event(Fresh, "write", PathB, NoDetails, File(BytesX, 1)).log[1],
      log_system_state(Fresh, TRUE).log[1],
      log_anomaly(Fresh, "pdf_error", NoDetails).log[1],
      log_process_execution(Fresh, <<"c">>, 1, 0, TRUE).log[1],
      ShortLine, JsonLine("number"), JsonLine("object") }

MaxStamp == 2    \* instants of the clock the records are stamped with

\* 'timestamp': datetime.now().isoformat() of the records the logger builds;
\* the foreign lines have none
Stamped(line, t) == [timestamp |-> t] @@ line

\* the lines of the session files of the log directory, in the order
\* os.listdir and the files yield them: any interleaving of the instants
StampedLines ==
    {IF line.kind \in {"short", "json"} THEN line ELSE Stamped(line, t) :
        line \in LogLines, t \in 1..MaxStamp}

\* ForensicAnalyzer.__init__
Analyzer == [at |-> "load", i |-> 0, events |-> <<>>, anomalies |-> <<>>,
             system_states |-> <<>>, process_executions |-> <<>>,
             file_analysis |-> <<>>, timeline |-> <<>>]

InitAnalyze ==
    /\ pc = "analyze"
    /\ df = <<>>
    /\ lookup = EmptyDict
    /\ visited = <<>>
    /\ named = <<>>
    /\ outputs = EmptyDict
    /\ clobbered = {}
    /\ filename_mappings = <<>>
    /\ csv = NoCsv
    /\ log \in UNION {[1..n -> StampedLines] : n \in 0..MaxLog}
    /\ invoked = <<>>
    /\ escaped = FALSE
    /\ SessionsIdle
    /\ ExtractionIdle
    /\ RaceIdle
    /\ enr = <<>>
    /\ vld = <<>>
    /\ StagesIdle
    /\ ana = Analyzer

\* what an analyzer run leaves alone
NotAnalyzed == <<pc, df, lookup, visited, named, outputs, clobbered, filename_mappings,
                 csv, log, invoked, escaped, Sessions, Extraction, Race, enr, vld,
                 Stages>>

\* lines 25-43: one iteration of `for line in f`
ALoadLine ==
    /\ ana.at = "load"
    /\ ana.i < Len(log)
    /\ LET line == log[ana.i + 1]
           next == [ana EXCEPT !.i = @ + 1]
       IN  IF ~Splits(line) \/ ~JsonLoads(line)
           THEN ana' = next
           ELSE IF Marker(line) = "System State"
           THEN ana' = [next EXCEPT !.system_states = Append(@, line)]
           ELSE IF Marker(line) = "Anomaly Detected"
           THEN ana' = [next EXCEPT !.anomalies = Append(@, line)]
           ELSE IF Marker(line) = "Process Execution"
           THEN ana' = [next EXCEPT !.process_executions = Append(@, line)]
           ELSE ana' = [next EXCEPT !.events = Append(@, line)]
    /\ UNCHANGED NotAnalyzed

\* line 159, after load_logs has read the last line
AFileOperations ==
    /\ ana.at = "load"
    /\ ana.i = Len(log)
    /\ LET file_analysis == analyze_file_operations(ana.events) IN
       IF file_analysis.raised
       THEN ana' = [ana EXCEPT !.at = "raised"]
       ELSE ana' = [ana EXCEPT !.at = "system", !.file_analysis = file_analysis]
    /\ UNCHANGED NotAnalyzed

\* line 160
ASystemBehavior ==
    /\ ana.at = "system"
    /\ ana' = [ana EXCEPT !.at = IF analyze_system_behavior(ana.system_states).raised
                                 THEN "raised" ELSE "timeline"]
    /\ UNCHANGED NotAnalyzed

\* line 161
ATimeline ==
    /\ ana.at = "timeline"
    /\ LET timeline == generate_timeline(ana.events, ana.anomalies) IN
       IF timeline.raised
       THEN ana' = [ana EXCEPT !.at = "raised"]
       ELSE ana' = [ana EXCEPT !.at = "report", !.timeline = timeline.timeline]
    /\ UNCHANGED NotAnalyzed

\* lines 163-207: the reports are written
AReport ==
    /\ ana.at = "report"
    /\ ana' = [ana EXCEPT !.at = "done"]
    /\ UNCHANGED NotAnalyzed

NextAnalyze == ALoadLine \/ AFileOperations \/ ASystemBehavior \/ ATimeline \/ AReport

SpecAnalyze == InitAnalyze /\ [][NextAnalyze]_vars

-----------------------------------------------------------------------------
(* validate_processing.py: the mapping's declared files against the        *)
(* artifacts of the output directories, and the exit status of the run.    *)

MaxDeclared == 2    \* rows of the validator's mapping table

FileSpaceColumn == <<"F", "i", "l", "e", " ", "1">>     \* "File 1"

\* line 113: re.match(r'file\s*\d+', col.lower())
IsNumberedFileColumn(col) ==
    LET lower == str_lower(col)
        rest  == LStrip(Drop(lower, Len(FilePattern)))
    IN  StartsWith(lower, FilePattern) /\ rest # <<>> /\ rest[1] \in Digits

\* the file cells of the validator's rows
DeclaredCells == {Str(NPdfA), Str(NPdfB), NaN}

\* the name of the one file column of the mapping: File#1 as the renamer
\* reads it, or "File 1"
FileColumns == {ColName(1), FileSpaceColumn}

\* the process has not exited yet (an exit status is 0 or more)
NoExit == -1

\* ProcessingValidator.__init__ and the locals of validate_processing
Validator(file_column, cells, walk, exists) ==
    [columns |-> <<RespondentIdColumn, file_column>>,
     rows |-> [i \in 1..Len(cells) |->
                  (RespondentIdColumn :> Num(100 * i)) @@ (file_column :> cells[i])],
     walk |-> walk, exists |-> exists,
     at |-> "main", json_files |-> EmptyDict, file_columns |-> <<>>, i |-> 0,
     found_files |-> <<>>, missing_files |-> <<>>, exit |-> NoExit]

InitValidate ==
    /\ pc = "validate"
    /\ df = <<>>
    /\ lookup = EmptyDict
    /\ visited = <<>>
    /\ named = <<>>
    /\ clobbered = {}
    /\ filename_mappings = <<>>
    /\ csv = NoCsv
    /\ log = <<>>
    /\ invoked = <<>>
    /\ escaped = FALSE
    /\ SessionsIdle
    /\ ExtractionIdle
    /\ RaceIdle
    /\ enr = <<>>
    /\ ana = <<>>
    /\ StagesIdle
    /\ \E file_column \in FileColumns,
          cells \in UNION {[1..n -> DeclaredCells] : n \in 0..MaxDeclared},
          stored \in Arrangements(Stored, MaxArtifacts), exists \in BOOLEAN :
        /\ outputs = [p \in {stored[i][1] : i \in 1..Len(stored)} |->
                         (CHOOSE a \in Stored : a[1] = p)[2]]
        /\ vld = Validator(file_column, cells, [i \in 1..Len(stored) |-> stored[i][1]],
                           exists)

\* what a validator run leaves alone
NotValidated == <<pc, df, lookup, visited, named, outputs, clobbered, filename_mappings,
                  csv, Sessions, Extraction, Race, enr, ana, Stages>>

\* lines 181-183: the mapping file is missing
VRefuse ==
    /\ vld.at = "main"
    /\ ~vld.exists
    /\ vld' = [vld EXCEPT !.at = "exited", !.exit = 1]
    /\ UNCHANGED <<log, invoked, escaped>>
    /\ UNCHANGED NotValidated

\* lines 102-116 (with 40-95): the mapping is loaded, the .json files are
\* found and indexed, the file columns are looked for.
\*   readable: pandas can read the mapping file.
VStart ==
    /\ vld.at = "main"
    /\ vld.exists
    /\ \E readable \in BOOLEAN :
        IF ~readable
        THEN /\ Commit(log_anomaly(Self, "mapping_file_error", NoDetails))
             /\ vld' = [vld EXCEPT !.at = "exited", !.exit = 1]
        ELSE
          LET L1    == log_file_event(Self, "mapping_file_loaded", MappingPath,
                           Details([rows |-> Len(vld.rows), columns |-> vld.columns]),
                           File(vld.rows, 1))
              found == find_json_files(L1, vld.walk)
              index == IndexFiles(found.L, EmptyDict, outputs, found.json_files, 1)
              file_columns == SelectSeq(vld.columns, IsNumberedFileColumn)
          IN
          /\ Commit(index.L)
          /\ IF index.json_file_dict = EmptyDict \/ file_columns = <<>>
             THEN vld' = [vld EXCEPT !.at = "exited", !.exit = 1,
                                     !.json_files = index.json_file_dict]
             ELSE vld' = [vld EXCEPT !.at = "rows",
                                     !.json_files = index.json_file_dict,
                                     !.file_columns = file_columns]
    /\ UNCHANGED NotValidated

\* lines 126-149: one iteration of `for idx, row in mapping_df.iterrows()`
\* (the table has one file column)
VRow ==
    /\ vld.at = "rows"
    /\ vld.i < Len(vld.rows)
    /\ LET row  == vld.rows[vld.i + 1]
           cell == row[vld.file_columns[1]]
           norm_name == normalize_filename(cell.s)
           next == [vld EXCEPT !.i = @ + 1]
       IN  IF Blank(cell)
           THEN vld' = next
           ELSE IF norm_name # <<>> /\ norm_name \in DOMAIN vld.json_files
           THEN vld' = [next EXCEPT !.found_files = Append(@, cell.s)]
           ELSE vld' = [next EXCEPT !.missing_files = Append(@, cell.s)]
    /\ UNCHANGED <<log, invoked, escaped>>
    /\ UNCHANGED NotValidated

\* lines 151-171 and 186-188: the report and the exit status.  With no
\* declared file total_expected is 0 and the percentage of line 156 is a
\* ZeroDivisionError, which ends the process with status 1.
VEnd ==
    /\ vld.at = "rows"
    /\ vld.i = Len(vld.rows)
    /\ LET total_expected == Len(vld.found_files) + Len(vld.missing_files) IN
       IF total_expected = 0
       THEN /\ vld' = [vld EXCEPT !.at = "exited", !.exit = 1]
            /\ UNCHANGED <<log, invoked, escaped>>
       ELSE /\ Commit(log_file_event(Self, "processing_validation", None, NoDetails, NoFile))
            /\ vld' = [vld EXCEPT !.at = "exited",
                                  !.exit = IF Len(vld.missing_files) = 0 THEN 0 ELSE 1]
    /\ UNCHANGED NotValidated

NextValidate == VRefuse \/ VStart \/ VRow \/ VEnd

SpecValidate == InitValidate /\ [][NextValidate]_vars

-----------------------------------------------------------------------------
(* whisper_service.py: WhisperTranscriber.process_files over the audio and *)
(* the video input directory, run once and once again.                     *)

MaxMedia == 2    \* files of the two input directories together

AudioDir == "audio"
VideoDir == "video"
TempDir  == "/tmp/audio_processing"

NMp3 == <<"s", ".", "m", "p", "3">>          \* "s.mp3"
NMp4 == <<"v", ".", "m", "p", "4">>          \* "v.mp4"

WavExt == <<".", "w", "a", "v">>
AudioFormats == {<<".", "m", "p", "3">>, WavExt, <<".", "m", "4", "a">>}
VideoFormats == {<<".", "m", "p", "4">>, <<".", "m", "o", "v">>,
                 <<".", "a", "v", "i">>, <<".", "m", "k", "v">>}

\* the files of the input directories; "speech" is a recording ffmpeg and
\* whisper can read, "broken" one they cannot
MediaFiles ==
    { XFile(AudioDir, NMp3, "speech"), XFile(AudioDir, NMp3, "broken"),
      XFile(AudioDir, NOther, "speech"),
      XFile(VideoDir, NMp4, "speech"), XFile(VideoDir, NMp4, "broken"),
      XFile(VideoDir, NMp3, "speech") }

\* the files in the order of process_files: those of the audio directory
\* before those of the video directory, each path once
MediaTrees ==
    { t \in UNION {[1..n -> MediaFiles] : n \in 0..MaxMedia} :
        \A i, j \in DOMAIN t :
            i < j => /\ FilePath(t[i]) # FilePath(t[j])
                     /\ t[j].dir = AudioDir => t[i].dir = AudioDir }

\* the mapping row behind the lookup of a run
WRow(rid) == Row(rid, (1 :> Str(NMp3)) @@ (2 :> Str(NMp4)), Str(<<"x">>))

\* FilenamingUtility(mapping_file, enable_renaming): no mapping, or the lookup
\* of a mapping whose row has the respondent id 0 or 42
WLookups ==
    {EmptyDict} \cup {InsertSlots(EmptyDict, WRow(Num(r)), IntOfFloat(Num(r)), 1) : r \in {0, 420}}

\* output_path = os.path.join(output_subdir, str(new_filename))
TranscriptPath(f, new_filename) == <<<<f.dir, OutputDir>>, new_filename>>

\* temp_audio = os.path.join(self.temp_dir, f"{base_name}.wav")
TempAudio(f) == <<TempDir, SplitExt(f.name)[1] \o WavExt>>

\* lines 70-118: transcribe_audio(audio_path, output_path, file_type, ...).
\*   ok.available: whisper is installed and the model loaded;
\*   ok.transcribes: model.transcribe and the write of the document succeed
transcribe_audio(L, out, audio_path, audio, output_path, file_type, rid, col_num, ok) ==
    LET started == log_file_event(L, "transcription_start", audio_path, NoDetails, audio)
        fname   == audio_path[2]
        doc     == WithRespondent(
                       [text |-> <<"said">>, filename |-> fname,
                        filetype |-> IF Contains(fname, <<".">>)
                                     THEN Drop(str_lower(SplitExt(fname)[2]), 1)
                                     ELSE file_type],
                       rid, col_num)
    IN  IF ~ok.available
        THEN [L |-> log_anomaly(started, "whisper_not_available", NoDetails), outputs |-> out]
        ELSE IF ~ok.transcribes
        THEN [L |-> log_anomaly(started, "transcription_error", NoDetails), outputs |-> out]
        ELSE [L |-> log_file_event(started, "json_transcription_saved", output_path,
                                   NoDetails, File(doc, 1)),
              outputs |-> DictSet(out, output_path, Artifact(doc))]

\* lines 46-68: extract_audio_from_video(video_path, audio_path)
extract_audio_from_video(L, f) ==
    LET started == log_file_event(L, "video_audio_extraction_start", FilePath(f),
                                  NoDetails, FileOf(f))
    IN  IF f.body = "speech"
        THEN [L |-> log_file_event(started, "video_audio_extraction_complete", TempAudio(f),
                                   NoDetails, File(TempAudio(f), 1)),
              ok |-> TRUE]
        ELSE [L |-> log_anomaly(started, "video_processing_error", NoDetails), ok |-> FALSE]

\* lines 120-140: process_audio_file(file_path, output_dir)
process_audio_file(L, out, lk, f, available) ==
    LET found == get_output_filename(lk, f.name, JsonExt) IN
    transcribe_audio(L, out, FilePath(f), FileOf(f), TranscriptPath(f, found[1]),
                     Drop(str_lower(SplitExt(f.name)[2]), 1), found[2], found[3],
                     [available |-> available, transcribes |-> f.body = "speech"])

\* lines 142-180: process_video_file(file_path, output_dir)
process_video_file(L, out, lk, f, available) ==
    LET extracted_audio == extract_audio_from_video(L, f)
        found == get_output_filename(lk, f.name, JsonExt)
    IN  IF ~extracted_audio.ok
        THEN [L |-> extracted_audio.L, outputs |-> out]
        ELSE transcribe_audio(extracted_audio.L, out, TempAudio(f), File(TempAudio(f), 1),
                              TranscriptPath(f, found[1]),
                              Drop(str_lower(SplitExt(f.name)[2]), 1), found[2], found[3],
                              [available |-> available, transcribes |-> TRUE])

\* WhisperTranscriber.__init__
Transcriber(files) ==
    [files |-> files, i |-> 0, force |-> FALSE, available |-> TRUE, run |-> 1,
     at |-> "start"]

InitWhisper ==
    /\ pc = "transcribe"
    /\ df = <<>>
    /\ visited = <<>>
    /\ named = <<>>
    /\ outputs = EmptyDict
    /\ clobbered = {}
    /\ filename_mappings = <<>>
    /\ csv = NoCsv
    /\ log = <<>>
    /\ invoked = <<>>
    /\ escaped = FALSE
    /\ SessionsIdle
    /\ ExtractionIdle
    /\ RaceIdle
    /\ enr = <<>>
    /\ ana = <<>>
    /\ vld = <<>>
    /\ ytb = <<>>
    /\ leg = <<>>
    /\ rnm = <<>>
    /\ lookup \in WLookups
    /\ \E files \in MediaTrees : wsp = Transcriber(files)

\* what a transcriber run leaves alone
NotTranscribed == <<pc, df, lookup, visited, named, clobbered, filename_mappings, csv,
                    Sessions, Extraction, Race, enr, ana, vld, ytb, leg, rnm>>

\* __init__ (lines 17-43) and line 218: the model is loaded or the anomaly
\* 'whisper_not_available' logged, then the opening snapshot
TStart ==
    /\ wsp.at = "start"
    /\ \E force_reprocess \in BOOLEAN, available \in BOOLEAN :
        /\ wsp' = [wsp EXCEPT !.at = "walk", !.force = force_reprocess,
                              !.available = available]
        /\ Commit(log_system_state(
                     IF available THEN Self
                     ELSE log_anomaly(Self, "whisper_not_available", NoDetails), TRUE))
    /\ UNCHANGED outputs
    /\ UNCHANGED NotTranscribed

\* lines 184-214 of process_directory on the next file of the walks: filters,
\* the existing-output check, and process_audio_file or process_video_file
TFile ==
    /\ wsp.at = "walk"
    /\ wsp.i < Len(wsp.files)
    /\ LET f       == wsp.files[wsp.i + 1]
           ext     == str_lower(SplitExt(f.name)[2])
           formats == IF f.dir = AudioDir THEN AudioFormats ELSE VideoFormats
           output_path == TranscriptPath(f, get_output_filename(lookup, f.name, JsonExt)[1])
           done    == IF ext \in VideoFormats
                      THEN process_video_file(Self, outputs, lookup, f, wsp.available)
                      ELSE process_audio_file(Self, outputs, lookup, f, wsp.available)
       IN  IF StartsWith(f.name, <<".">>) \/ f.name \in ExcludedNames \/ ext \notin formats
           THEN UNCHANGED <<outputs, log, invoked, escaped>>
           ELSE IF ShouldSkip(outputs, output_path, wsp.force)
           THEN /\ Commit(log_file_event(Self, "skip_existing_output", FilePath(f),
                             Details([output_path |-> output_path]), FileOf(f)))
                /\ UNCHANGED outputs
           ELSE /\ Commit(done.L)
                /\ outputs' = done.outputs
    /\ wsp' = [wsp EXCEPT !.i = @ + 1]
    /\ UNCHANGED NotTranscribed

\* lines 232-236: the walks are over; cleanup_temp_files finds the temporary
\* directory empty, then the closing snapshot
TEnd ==
    /\ wsp.at = "walk"
    /\ wsp.i = Len(wsp.files)
    /\ Commit(log_system_state(Self, TRUE))
    /\ wsp' = [wsp EXCEPT !.at = "done"]
    /\ UNCHANGED outputs
    /\ UNCHANGED NotTranscribed

\* __main__: the transcriber is started again on the same directories
TRerun ==
    /\ wsp.at = "done"
    /\ wsp.run = 1
    /\ wsp' = [wsp EXCEPT !.at = "start", !.run = 2, !.i = 0]
    /\ UNCHANGED <<outputs, log, invoked, escaped>>
    /\ UNCHANGED NotTranscribed

NextWhisper == TStart \/ TFile \/ TEnd \/ TRerun

SpecWhisper == InitWhisper /\ [][NextWhisper]_vars

-----------------------------------------------------------------------------
(* FileRenamer.rename_files over a disk.  input_dir and output_dir are the *)
(* two directories the command line names (sys.argv[1], sys.argv[2]); the  *)
(* script accepts any pair, the same directory twice included.  The disk   *)
(* maps a path <<directory, name>> to the bytes of the file there.         *)

MaxInputs == 2

InputDir == "in"

\* the names an input directory is made of: a file the mapping may declare,
\* files that carry a canonical name already, a hidden file
DiskNames == {NSpace, UnmatchedName(SplitExt(NSpace)[1], SplitExt(NSpace)[2]), MatchedName(10, <<"1">>, SplitExt(NSpace)[2]), Hidden}

BytesOf(name) == <<"bytes", name>>

\* the disk holding the files `names` in input_dir and nothing else
DiskOf(names) == [path \in {<<InputDir, name>> : name \in names} |-> BytesOf(path[2])]

\* os.path.join(output_dir, rel_path, new_name) for a file of the input root
DiskPath(output_dir, new_name) == <<output_dir, new_name>>

\* f"rename_mapping_{timestamp}.csv" in output_dir
DiskCsvPath(output_dir) == <<output_dir, CsvPath>>

InitDisk ==
    /\ pc = "start"
    /\ df = <<>>
    /\ lookup = EmptyDict
    /\ visited = <<>>
    /\ named = <<>>
    /\ outputs = EmptyDict
    /\ clobbered = {}
    /\ filename_mappings = <<>>
    /\ csv = NoCsv
    /\ log = <<>>
    /\ invoked = <<>>
    /\ escaped = FALSE
    /\ SessionsIdle
    /\ ExtractionIdle
    /\ RaceIdle
    /\ enr = <<>>
    /\ ana = <<>>
    /\ vld = <<>>
    /\ wsp = <<>>
    /\ ytb = <<>>
    /\ leg = <<>>
    /\ \E names \in SUBSET DiskNames, output_dir \in {OutputDir, InputDir} :
        /\ Cardinality(names) \in 1..MaxInputs
        /\ rnm = [input_dir |-> InputDir, output_dir |-> output_dir,
                  inputs |-> DiskOf(names), disk |-> DiskOf(names),
                  listed |-> FALSE, todo |-> <<>>]

\* what the walk over the disk leaves alone
NotDisk == <<df, lookup, visited, named, outputs, clobbered,
             Sessions, Extraction, Race, enr, ana, vld, wsp, ytb, leg>>

\* line 75: os.walk(self.input_dir) lists the input root, once, in the order
\* the file system gives
DList ==
    /\ pc = "walk"
    /\ ~rnm.listed
    /\ \E order \in Arrangements(DOMAIN rnm.disk, MaxInputs) :
        /\ {order[i] : i \in 1..Len(order)} = {path \in DOMAIN rnm.disk : path[1] = rnm.input_dir}
        /\ rnm' = [rnm EXCEPT !.listed = TRUE, !.todo = order]
    /\ UNCHANGED <<filename_mappings, csv, log, invoked, escaped, pc>>
    /\ UNCHANGED NotDisk

\* lines 76-116: the body of the walk for the next listed file.  shutil.copy2
\* raises SameFileError when source and destination are one file, and may
\* fail for any other reason (copy_ok).
DFile ==
    /\ pc = "walk"
    /\ rnm.listed
    /\ rnm.todo # <<>>
    /\ \E copy_ok \in BOOLEAN :
        LET file_path == Head(rnm.todo)
            fname     == file_path[2]
            new_name  == NewName(lookup, fname)
            new_path  == DiskPath(rnm.output_dir, new_name)
            f         == InFile(Root, fname)
        IN
        /\ ~copy_ok => (fname \notin ExcludedNames /\ fname[1] # ".")
        /\ IF fname \in ExcludedNames
           THEN /\ rnm' = [rnm EXCEPT !.todo = Tail(rnm.todo)]
                /\ UNCHANGED <<filename_mappings, log, invoked, escaped>>
           ELSE IF StartsWith(fname, <<".">>)
           THEN /\ Commit(log_file_event(Self, "skip_hidden_file", fname, NoDetails, NoFile))
                /\ filename_mappings' = Append(filename_mappings, <<fname, SkippedMark>>)
                /\ rnm' = [rnm EXCEPT !.todo = Tail(rnm.todo)]
           ELSE IF copy_ok /\ new_path # file_path
           THEN /\ rnm' = [rnm EXCEPT !.todo = Tail(rnm.todo),
                                      !.disk = DictSet(rnm.disk, new_path, rnm.disk[file_path])]
                /\ Commit(log_file_event(Self, "file_renamed", new_path,
                              Details([original |-> f, has_mapping |-> Truthy(DictGet(lookup, fname))]),
                              File(rnm.disk[file_path], 1)))
                /\ filename_mappings' = Append(filename_mappings, <<fname, new_name>>)
           ELSE /\ Commit(log_anomaly(Self, "rename_error",
                              Details([file |-> f, new_name |-> new_name])))
                /\ rnm' = [rnm EXCEPT !.todo = Tail(rnm.todo)]
                /\ UNCHANGED filename_mappings
    /\ UNCHANGED <<csv, pc>>
    /\ UNCHANGED NotDisk

\* lines 118-137: the walk is over, the mapping CSV is written into
\* output_dir and the closing snapshot logged
DFinish ==
    /\ pc = "walk"
    /\ rnm.listed
    /\ rnm.todo = <<>>
    /\ \E csv_ok \in BOOLEAN :
        IF csv_ok
        THEN /\ csv' = Csv(filename_mappings)
             /\ rnm' = [rnm EXCEPT !.disk = DictSet(rnm.disk, DiskCsvPath(rnm.output_dir),
                                                    filename_mappings)]
             /\ Commit(log_system_state(
                          log_file_event(Self, "mapping_saved", CsvPath,
                              Details([total_files |-> Len(filename_mappings)]),
                              File(filename_mappings, 1)), TRUE))
        ELSE /\ UNCHANGED <<csv, rnm>>
             /\ Commit(ProcessError(Self))
    /\ pc' = "done"
    /\ UNCHANGED filename_mappings
    /\ UNCHANGED NotDisk

NextDisk == Start \/ BuildRow \/ BuildEnd \/ DList \/ DFile \/ DFinish

SpecDisk == InitDisk /\ [][NextDisk]_vars

-----------------------------------------------------------------------------
(* YouTubeProcessor.process_youtube_links, run over the links of a links   *)
(* file and run again.  A URL is what urlparse makes of it: its hostname,  *)
(* the segments of its path and the query parameter v (None when absent).  *)

MaxLinks == 2

Url(hostname, path, v) == [hostname |-> hostname, path |-> path, v |-> v]

VidA == <<"A">>
VidB == <<"B">>

\* the path segments "watch" and "v"
Watch == <<"w", "a", "t", "c", "h">>
V     == <<"v">>

\* the links a links file is made of
Links ==
    { Url("www.youtube.com", <<Watch>>, VidA), Url("youtu.be", <<VidA>>, None),
      Url("youtu.be", <<VidB>>, None), Url("youtube.com", <<Watch>>, None),
      Url("youtube.com", <<V, VidB>>, None), Url("example.com", <<Watch>>, VidA) }

\* lines 30-47: get_video_id(url).  parse_qs(...)['v'] raises KeyError for a
\* query without v; the except logs 'url_parse_error' and returns None
get_video_id(L, url) ==
    IF url.hostname \in {"www.youtube.com", "youtube.com"}
    THEN IF url.path = <<Watch>>
         THEN IF url.v # None
              THEN [L |-> L, video_id |-> url.v]
              ELSE [L |-> log_anomaly(L, "url_parse_error", Details([url |-> url])),
                    video_id |-> None]
         ELSE IF Len(url.path) >= 2 /\ url.path[1] = V
         THEN [L |-> L, video_id |-> url.path[2]]
         ELSE [L |-> L, video_id |-> None]
    ELSE IF url.hostname = "youtu.be" /\ Len(url.path) = 1
    THEN [L |-> L, video_id |-> url.path[1]]
    ELSE [L |-> L, video_id |-> None]

YoutubePrefix == <<"y", "o", "u", "t", "u", "b", "e", "_">>
Mp4Ext == <<".", "m", "p", "4">>

\* f"youtube_{video_id}.json" and f"youtube_{video_id}.mp4"
YoutubeName(video_id, ext) == YoutubePrefix \o video_id \o ext

\* os.path.join(self.output_dir, output_filename)
YoutubeOutputPath(lk, video_id) ==
    <<OutputDir, get_output_filename(lk, YoutubeName(video_id, JsonExt), JsonExt)[1]>>

\* os.path.join(self.video_input_dir, video_filename)
YoutubeVideoPath(lk, video_id) ==
    <<VideoDir, get_output_filename(lk, YoutubeName(video_id, Mp4Ext), Mp4Ext)[1]>>

\* lines 157-164: the document of a transcript
YoutubeDoc(transcript, video_id, url) ==
    [text |-> transcript, filename |-> YoutubePrefix \o video_id, filetype |-> "youtube",
     video_id |-> video_id, url |-> url]

\* lines 49-77: get_transcript(video_id).  api is what the transcript API
\* does: "text" a transcript, "empty" an empty one, "error" an exception
get_transcript(L, video_id, api) ==
    IF api = "error"
    THEN [L |-> log_anomaly(L, "transcript_api_error", Details([video_id |-> video_id])),
          transcript |-> None]
    ELSE [L |-> L, transcript |-> IF api = "text" THEN <<"words of ", video_id>> ELSE <<>>]

\* lines 79-103: download_video(url, output_path)
download_video(L, url, output_path, download_ok) ==
    LET started == log_file_event(L, "youtube_download_start", url, NoDetails, NoFile) IN
    IF download_ok
    THEN [L |-> log_file_event(started, "youtube_download_complete", output_path,
                               NoDetails, File(<<"video of ", url>>, 1)),
          success |-> TRUE]
    ELSE [L |-> log_anomaly(started, "youtube_download_error", Details([url |-> url])),
          success |-> FALSE]

\* nothing was done for a link yet
NoLink == [url |-> None]

YouTubeProcessor(links, force_reprocess) ==
    [links |-> links, force_reprocess |-> force_reprocess, videos |-> {},
     at |-> "start", i |-> 0, run |-> 1, last |-> NoLink]

InitYouTube ==
    /\ pc = "youtube"
    /\ df = <<>>
    /\ lookup = EmptyDict
    /\ visited = <<>>
    /\ named = <<>>
    /\ outputs = EmptyDict
    /\ clobbered = {}
    /\ filename_mappings = <<>>
    /\ csv = NoCsv
    /\ log = <<>>
    /\ invoked = <<>>
    /\ escaped = FALSE
    /\ SessionsIdle
    /\ ExtractionIdle
    /\ RaceIdle
    /\ enr = <<>>
    /\ ana = <<>>
    /\ vld = <<>>
    /\ wsp = <<>>
    /\ leg = <<>>
    /\ rnm = <<>>
    /\ \E links \in UNION {[1..n -> Links] : n \in 0..MaxLinks}, force_reprocess \in BOOLEAN :
        ytb = YouTubeProcessor(links, force_reprocess)

\* what a run of the YouTube stage leaves alone
NotYouTube == <<pc, df, lookup, visited, named, clobbered, filename_mappings, csv,
                Sessions, Extraction, Race, enr, ana, vld, wsp, leg, rnm>>

\* lines 125-132: the opening snapshot and read_youtube_links (lines 105-121).
\*   readable: pandas can read the links file
YStart ==
    /\ ytb.at = "start"
    /\ \E readable \in BOOLEAN :
        LET L     == log_system_state(Self, TRUE)
            L1    == IF readable THEN L ELSE log_anomaly(L, "links_file_error", NoDetails)
            links == IF readable THEN ytb.links ELSE <<>>
        IN  IF links = <<>>
            THEN /\ Commit(log_anomaly(L1, "no_youtube_links", NoDetails))
                 /\ ytb' = [ytb EXCEPT !.at = "done"]
            ELSE /\ Commit(L1)
                 /\ ytb' = [ytb EXCEPT !.at = "links", !.i = 0]
    /\ UNCHANGED outputs
    /\ UNCHANGED NotYouTube

\* lines 134-189: one iteration of `for i, url in enumerate(links, 1)`.
\* ytb.last keeps what the iteration found and did.
YLink ==
    /\ ytb.at = "links"
    /\ ytb.i < Len(ytb.links)
    /\ \E api \in {"text", "empty", "error"}, download_ok \in BOOLEAN :
        LET url         == ytb.links[ytb.i + 1]
            id          == get_video_id(Self, url)
            video_id    == id.video_id
            output_path == YoutubeOutputPath(lookup, video_id)
            video_path  == YoutubeVideoPath(lookup, video_id)
            found       == [url |-> url, video_id |-> video_id,
                            had_artifact |-> output_path \in DOMAIN outputs,
                            had_video |-> video_path \in ytb.videos]
            got         == get_transcript(id.L, video_id, api)
            doc         == YoutubeDoc(got.transcript, video_id, url)
            loaded      == download_video(got.L, url, video_path, download_ok)
            nothing     == [wrote |-> FALSE, downloaded |-> FALSE]
            asked       == [transcript |-> got.transcript]
            unasked     == [transcript |-> None]
        IN
        IF video_id = None
        THEN /\ api = "text" /\ download_ok
             /\ Commit(id.L)
             /\ ytb' = [ytb EXCEPT !.i = @ + 1, !.last = NoLink]
             /\ UNCHANGED outputs
        ELSE IF output_path \in DOMAIN outputs /\ ~ytb.force_reprocess
        THEN /\ api = "text" /\ download_ok
             /\ Commit(log_file_event(id.L, "skip_existing_output", url,
                           Details([output_path |-> output_path, video_id |-> video_id]),
                           NoFile))
             /\ ytb' = [ytb EXCEPT !.i = @ + 1, !.last = found @@ nothing @@ unasked]
             /\ UNCHANGED outputs
        ELSE IF got.transcript # None /\ got.transcript # <<>>
        THEN /\ download_ok
             /\ outputs' = DictSet(outputs, output_path, Artifact(doc))
             /\ Commit(log_file_event(got.L, "youtube_transcript_json_saved", output_path,
                                      NoDetails, File(doc, 1)))
             /\ ytb' = [ytb EXCEPT !.i = @ + 1,
                                   !.last = found @@ asked
                                              @@ [wrote |-> TRUE, downloaded |-> FALSE]]
        ELSE IF video_path \in ytb.videos /\ ~ytb.force_reprocess
        THEN /\ download_ok
             /\ Commit(log_file_event(got.L, "skip_existing_video", url,
                           Details([video_path |-> video_path, video_id |-> video_id]),
                           NoFile))
             /\ ytb' = [ytb EXCEPT !.i = @ + 1, !.last = found @@ nothing @@ asked]
             /\ UNCHANGED outputs
        ELSE /\ Commit(IF loaded.success THEN loaded.L
                       ELSE log_anomaly(loaded.L, "video_processing_failed",
                                        Details([url |-> url, video_id |-> video_id])))
             /\ ytb' = [ytb EXCEPT !.i = @ + 1,
                                   !.videos = IF loaded.success THEN @ \cup {video_path} ELSE @,
                                   !.last = found @@ asked
                                              @@ [wrote |-> FALSE,
                                                  downloaded |-> loaded.success]]
             /\ UNCHANGED outputs
    /\ UNCHANGED NotYouTube

\* line 191: the links are exhausted, the closing snapshot
YEnd ==
    /\ ytb.at = "links"
    /\ ytb.i = Len(ytb.links)
    /\ Commit(log_system_state(Self, TRUE))
    /\ ytb' = [ytb EXCEPT !.at = "done"]
    /\ UNCHANGED outputs
    /\ UNCHANGED NotYouTube

\* lines 193-216: the stage is run a second time with the same arguments
YRerun ==
    /\ ytb.at = "done"
    /\ ytb.run = 1
    /\ ytb' = [ytb EXCEPT !.at = "start", !.run = 2, !.i = 0, !.last = NoLink]
    /\ UNCHANGED <<outputs, log, invoked, escaped>>
    /\ UNCHANGED NotYouTube

NextYouTube == YStart \/ YLink \/ YEnd \/ YRerun

SpecYouTube == InitYouTube /\ [][NextYouTube]_vars

-----------------------------------------------------------------------------
(* The legacy single-pass script process_files.py, run and run again with  *)
(* the same arguments.  Its working directory is the fixed path /tmp/work, *)
(* which the script creates with exist_ok and never empties.               *)

MaxLegacy == 2

TxtExt == <<".", "t", "x", "t">>

\* the names an input directory of the script is made of
LegacyNames == {NDoc, NBlank, NSpace, Hidden, DSStore}

\* the mapping tables of a run: no row, a row that declares NDoc, that row
\* without Respondent ID, that row with an id that is no number
LegacyTables ==
    { <<>>, <<XRow>>, <<Row(NaN, (1 :> Str(NDoc)), Str(<<"x">>))>>,
      <<Row(Str(<<"a", "b", "c">>), (1 :> Str(NDoc)), Str(<<"x">>))>> }

\* process_files.py lines 92-116: build_spreadsheet_lookup(df), from row i on;
\* int(float(...)) raises on an id that is no number
RECURSIVE LegacyLookup(_, _, _)
LegacyLookup(lk, table, i) ==
    IF i > Len(table) THEN [raised |-> FALSE, lookup |-> lk]
    ELSE IF IsNa(table[i].rid) THEN LegacyLookup(lk, table, i + 1)
    ELSE IF ~FloatParses(table[i].rid) THEN [raised |-> TRUE, lookup |-> lk]
    ELSE LegacyLookup(InsertSlots(lk, table[i], IntOfFloat(table[i].rid), 1), table, i + 1)

\* lines 24-41: prepare_input_files copies every input file into work_dir,
\* over the file of that name if there is one
PrepareInputFiles(work, input) ==
    [name \in DOMAIN work \cup input |-> IF name \in input THEN BytesOf(name) ELSE work[name]]

\* sanitize_pdf / sanitize_docx on the bytes of a file: the file n.PDF has
\* no text
LegacyText(bytes) == IF bytes = BytesOf(NBlank) THEN <<>> ELSE <<"text of", bytes>>

\* os.rename(old_path, new_path) inside work_dir
Rename(work, old_name, new_name) ==
    [name \in (DOMAIN work \ {old_name}) \cup {new_name} |->
        IF name = new_name THEN work[old_name] ELSE work[name]]

\* nothing is kept of a first run yet
NoRun == [rows |-> {}, written |-> {}]

Legacy(input, table, mapping) ==
    [input |-> input, table |-> table, mapping |-> mapping, work |-> EmptyDict,
     todo |-> <<>>, at |-> "start", run |-> 1, written |-> {}, first |-> NoRun]

InitLegacy ==
    /\ pc = "legacy"
    /\ df = <<>>
    /\ lookup = EmptyDict
    /\ visited = <<>>
    /\ named = <<>>
    /\ outputs = EmptyDict
    /\ clobbered = {}
    /\ filename_mappings = <<>>
    /\ csv = NoCsv
    /\ log = <<>>
    /\ invoked = <<>>
    /\ escaped = FALSE
    /\ SessionsIdle
    /\ ExtractionIdle
    /\ RaceIdle
    /\ enr = <<>>
    /\ ana = <<>>
    /\ vld = <<>>
    /\ wsp = <<>>
    /\ ytb = <<>>
    /\ rnm = <<>>
    /\ \E input \in SUBSET LegacyNames, table \in LegacyTables,
          mapping \in {"csv", "xlsx", "other"} :
        /\ Cardinality(input) \in 1..MaxLegacy
        /\ leg = Legacy(input, table, mapping)

\* what a run of the legacy script leaves alone
NotLegacy == <<pc, df, visited, named, clobbered, log, invoked, escaped,
               Sessions, Extraction, Race, enr, ana, vld, wsp, ytb, rnm>>

\* lines 135-160: the inputs are copied into work_dir, the mapping read, the
\* lookup built and work_dir listed by os.walk, in the order the file system
\* gives.  An exception of build_spreadsheet_lookup ends the process.
LStart ==
    /\ leg.at = "start"
    /\ LET work == PrepareInputFiles(leg.work, leg.input)
           built == LegacyLookup(EmptyDict, leg.table, 1)
       IN  IF leg.mapping = "other"
           THEN /\ leg' = [leg EXCEPT !.work = work, !.at = "done"]
                /\ UNCHANGED lookup
           ELSE IF built.raised
           THEN /\ leg' = [leg EXCEPT !.work = work, !.at = "crashed"]
                /\ UNCHANGED lookup
           ELSE \E order \in Arrangements(DOMAIN work, 2 * MaxLegacy) :
                   /\ {order[i] : i \in 1..Len(order)} = DOMAIN work
                   /\ leg' = [leg EXCEPT !.work = work, !.at = "walk", !.todo = order]
                   /\ lookup' = built.lookup
    /\ UNCHANGED <<outputs, filename_mappings, csv>>
    /\ UNCHANGED NotLegacy

\* lines 161-233: the body of the pass for the next listed file
LFile ==
    /\ leg.at = "walk"
    /\ leg.todo # <<>>
    /\ LET fname     == Head(leg.todo)
           base      == SplitExt(fname)[1]
           ext       == SplitExt(fname)[2]
           ext_lower == str_lower(ext)
           match     == DictGet(lookup, fname)
           new_name  == IF Truthy(match) THEN MatchedName(match[1], match[2], ext)
                        ELSE UnmatchedName(base, ext)
           text      == IF ext_lower \in {PdfExt, DocxExt}
                        THEN LegacyText(leg.work[fname]) ELSE None
           txt_filename == IF Truthy(match) THEN MatchedName(match[1], match[2], TxtExt)
                           ELSE UnmatchedName(base, TxtExt)
           txt_path  == <<OutputDir, txt_filename>>
       IN  IF fname \in ExcludedNames
           THEN /\ leg' = [leg EXCEPT !.todo = Tail(@)]
                /\ UNCHANGED <<outputs, filename_mappings>>
           ELSE IF StartsWith(fname, <<".">>)
           THEN /\ filename_mappings' = Append(filename_mappings, <<fname, SkippedMark>>)
                /\ leg' = [leg EXCEPT !.todo = Tail(@)]
                /\ UNCHANGED outputs
           ELSE IF fname \notin DOMAIN leg.work
           THEN \* FileNotFoundError from os.rename ends the process
                /\ leg' = [leg EXCEPT !.at = "crashed"]
                /\ UNCHANGED <<outputs, filename_mappings>>
           ELSE IF text # None /\ text # <<>>
           THEN /\ outputs' = DictSet(outputs, txt_path, text)
                /\ filename_mappings' = Append(filename_mappings, <<fname, txt_filename>>)
                /\ leg' = [leg EXCEPT !.todo = Tail(@),
                                      !.work = Rename(@, fname, new_name),
                                      !.written = @ \cup {txt_path}]
           ELSE /\ filename_mappings' = Append(filename_mappings, <<fname, new_name>>)
                /\ leg' = [leg EXCEPT !.todo = Tail(@),
                                      !.work = Rename(@, fname, new_name)]
                /\ UNCHANGED outputs
    /\ UNCHANGED <<lookup, csv>>
    /\ UNCHANGED NotLegacy

\* lines 235-248: the pass is over, the CSV is written into mapping_dir
LEnd ==
    /\ leg.at = "walk"
    /\ leg.todo = <<>>
    /\ \E csv_ok \in BOOLEAN :
        csv' = IF csv_ok THEN Csv(filename_mappings) ELSE csv
    /\ leg' = [leg EXCEPT !.at = "done"]
    /\ UNCHANGED <<lookup, outputs, filename_mappings>>
    /\ UNCHANGED NotLegacy

\* lines 254-272: the script is run a second time with the same arguments;
\* leg.first keeps the CSV rows and the text files of the first run
LRerun ==
    /\ leg.at = "done"
    /\ leg.run = 1
    /\ leg' = [leg EXCEPT !.at = "start", !.run = 2, !.todo = <<>>, !.written = {},
                          !.first = [rows |-> {filename_mappings[i] :
                                                  i \in 1..Len(filename_mappings)},
                                     written |-> leg.written]]
    /\ filename_mappings' = <<>>
    /\ lookup' = EmptyDict
    /\ UNCHANGED <<outputs, csv>>
    /\ UNCHANGED NotLegacy

NextLegacy == LStart \/ LFile \/ LEnd \/ LRerun

SpecLegacy == InitLegacy /\ [][NextLegacy]_vars

-----------------------------------------------------------------------------
(* Vocabulary of the properties.                                           *)

\* percentEncodeSpaces / decodePercentSpaces
Enc(f) == Replace(f, SP, PCT)
Dec(f) == Replace(f, PCT, SP)
Forms(f) == {f, Enc(f), Dec(f)}

\* the row has a Respondent ID / one that is a number
HasRid(row) == ~IsNa(row.rid)
ValidRid(row) == HasRid(row) /\ FloatParses(row.rid)

\* the slots of File#1..File#20 in which the row declares a filename
DeclaredSlots(row) ==
    {c \in DOMAIN row.files \cap (1..NumSlots) :
        IsStr(row.files[c]) /\ Strip(row.files[c].s) # <<>>}

\* the declarations <<row index, slot>> of the rows read so far that carry a
\* numeric Respondent ID, and the filename each declares
Decls ==
    UNION { {<<i, c>> : c \in DeclaredSlots(df[i])} :
            i \in {j \in 1..Len(df) : ValidRid(df[j])} }
DeclName(p) == Strip(df[p[1]].files[p[2]].s)
DeclPair(p) == <<IntOfFloat(df[p[1]].rid), IntStr(p[2])>>

\* p is visited after q: rows in table order, slots ascending within a row
After(p, q) == p[1] > q[1] \/ (p[1] = q[1] /\ p[2] > q[2])

\* the forms (raw, encoded, decoded) of every declared filename
DeclForms == [p \in Decls |-> Forms(DeclName(p))]

\* the declarations one of whose forms is x, F being DeclForms; the one of
\* a set of declarations S that is visited last
DeclsOf(F, x) == {p \in DOMAIN F : x \in F[p]}
LastOf(S) == CHOOSE p \in S : \A q \in S : q = p \/ After(p, q)

Building == pc \in {"build", "walk"}

-----------------------------------------------------------------------------
(* C1: for every filename f declared in a row that has a Respondent ID,    *)
(* the finished lookup resolves f, f with spaces percent-encoded and f     *)
(* with '%20' decoded to the same (respondentId, slotNumber), also when    *)
(* other declarations share a variant key with f.                          *)
(* The code breaks it: see C1_Stale.                                       *)
C1_VariantFormsAgree ==
    pc = "walk" =>
        \A i \in 1..Len(df) : HasRid(df[i]) =>
            \A c \in DeclaredSlots(df[i]) :
                LET f == Strip(df[i].files[c].s) IN
                /\ DictGet(lookup, Enc(f)) = DictGet(lookup, f)
                /\ DictGet(lookup, Dec(f)) = DictGet(lookup, f)

\* the state C1 fails in: a name with both a space and '%20' keeps its own
\* raw key while a later declaration takes its encoded and decoded keys
C1_Stale ==
    /\ pc = "walk"
    /\ \E p \in Decls : /\ Contains(DeclName(p), SP) /\ Contains(DeclName(p), PCT)
                         /\ DictGet(lookup, DeclName(p)) # DictGet(lookup, Enc(DeclName(p)))

(* C2: while and after the lookup is built, every variant key maps to one  *)
(* pair, the keys are exactly the forms of the declared filenames, and a   *)
(* key generated by several declarations maps to the pair of the           *)
(* declaration visited last (rows in table order, slots ascending).        *)
C2_LastWriteWins ==
    Building =>
        LET F == DeclForms IN
        /\ DOMAIN lookup = UNION {F[p] : p \in DOMAIN F}
        /\ \A k \in DOMAIN lookup : lookup[k] = DeclPair(LastOf(DeclsOf(F, k)))

\* a key that two declarations with different pairs generate
C2_Witness ==
    /\ pc = "walk"
    /\ \E k \in DOMAIN lookup : \E p, q \in DeclsOf(DeclForms, k) :
          /\ DeclPair(p) # DeclPair(q)
          /\ lookup[k] = DeclPair(p)
          /\ After(p, q)


\* the files that reached the naming lines, and their extension
Entries == 1..Len(named)
Matched(e) == Truthy(e.match)
ExtOf(e) == SplitExt(e.file.name)[2]
BaseOf(e) == SplitExt(e.file.name)[1]

(* C3: within one run, two distinct input files that both resolve to       *)
(* Matched are never written to the same output path.                      *)
(* The code breaks it: the space and '%20' spellings of one declared name, *)
(* in one directory, are both copied to R<id>-<slot><ext>.                 *)
C3_MatchedOutputsDisjoint ==
    \A i, j \in Entries :
        (i # j /\ Matched(named[i]) /\ Matched(named[j])
               /\ named[i].copied /\ named[j].copied)
            => named[i].new_path # named[j].new_path

\* the copy of one matched input file has been overwritten by another's
C3_Overwritten ==
    \E i, j \in Entries :
        /\ i < j /\ Matched(named[i]) /\ Matched(named[j])
        /\ named[i].new_path \in clobbered
        /\ outputs[named[i].new_path] = named[j].file

(* C4: the canonical name is a function of the filename and the lookup:    *)
(* the same filename gets the same name wherever it is met; two files      *)
(* resolved to the same (respondentId, slotNumber) with the same extension *)
(* get the same name; and two resolved to distinct pairs with the same     *)
(* extension get distinct names R<respondentId>-<slotNumber><ext>.         *)
C4_NamesDeterministicInjective ==
    \A i, j \in Entries :
        LET a == named[i]
            b == named[j]
        IN  /\ a.file.name = b.file.name => a.new_name = b.new_name
            /\ (Matched(a) /\ Matched(b) /\ ExtOf(a) = ExtOf(b)) =>
                  (a.match = b.match <=> a.new_name = b.new_name)

\* two files resolved to (1, 11) and (11, 1), whose digits coincide
C4_Witness ==
    \E i, j \in Entries :
        /\ Matched(named[i]) /\ Matched(named[j])
        /\ ExtOf(named[i]) = ExtOf(named[j])
        /\ named[i].match = <<1, <<"1", "1">>>>
        /\ named[j].match = <<11, <<"1">>>>

\* R<r>-<n><ext> for the declaration p
DeclNameFor(p, ext) == RPrefix \o IntStr(IntOfFloat(df[p[1]].rid)) \o Dash \o IntStr(p[2]) \o ext

(* C5 as claimed: an input file whose name is the raw, encoded or decoded  *)
(* form of a name declared in slot n of a row with Respondent ID r is      *)
(* named R<r>-<n><ext>.  It fails when a later declaration shares the key. *)
C5_NamedAfterItsDeclaration ==
    Entries # {} =>
        LET F == DeclForms IN
        \A i \in Entries : \A p \in DeclsOf(F, named[i].file.name) :
            named[i].new_name = DeclNameFor(p, ExtOf(named[i]))

(* C5 as amended: such a file is named R<r>-<n><ext> for the declaration   *)
(* visited last among those one of whose forms is the file's name, with r  *)
(* printed as an integer and n in 1..20.                                   *)
C5_NamedAfterLastDeclaration ==
    Entries # {} =>
        LET F == DeclForms IN
        \A i \in Entries :
            LET S == DeclsOf(F, named[i].file.name) IN
            S # {} =>
                /\ LastOf(S)[2] \in 1..20
                /\ named[i].new_name = DeclNameFor(LastOf(S), ExtOf(named[i]))

\* the scenario of the specification: a row declares "a b.p" in File#1 and
\* the input holds "a%20b.p", which is named R<id>-1.p
C5_Witness ==
    \E i \in Entries : \E p \in DeclsOf(DeclForms, named[i].file.name) :
        /\ named[i].file.name = NPct
        /\ DeclName(p) = NSpace
        /\ p[2] = 1
        /\ named[i].new_name = RPrefix \o <<"1", "-", "1", ".", "p">>
        /\ named[i].copied

\* the basename with every space turned into an underscore
Underscored(base) == [k \in 1..Len(base) |-> IF base[k] = " " THEN "_" ELSE base[k]]

\* the visited files that are neither excluded nor hidden
Regular(f) == f.name \notin ExcludedNames /\ f.name[1] # "."

(* C6: an input file whose name is not a key of the lookup is not an       *)
(* error: it reaches naming like every other regular file, is named        *)
(* NORESPID_<basename with spaces as underscores><ext>, and its copy is in *)
(* the output tree when the copy succeeded; files of the same name resolve *)
(* alike whatever their directory and content.                             *)
C6_UnmatchedNamed ==
    /\ \A v \in 1..Len(visited) :
          Regular(visited[v]) => \E i \in Entries : named[i].file = visited[v]
    /\ \A i \in Entries :
          LET e == named[i] IN
          /\ e.file.name \notin DOMAIN lookup =>
                /\ ~Matched(e)
                /\ e.new_name = NoRespPrefix \o Underscored(BaseOf(e)) \o ExtOf(e)
                /\ e.copied => (e.new_path \in DOMAIN outputs /\ e.new_path[1] = e.file.dir)
          /\ \A j \in Entries : named[j].file.name = e.file.name => named[j].match = e.match

\* an unmatched file with a space in its basename has been copied
C6_Witness ==
    \E i \in Entries :
        /\ named[i].file.name = NSpace
        /\ NSpace \notin DOMAIN lookup
        /\ named[i].copied
        /\ outputs[named[i].new_path] = named[i].file

\* the anomaly records of one type in the session log
Anomalies(type) ==
    {k \in 1..Len(log) : log[k].kind = "anomaly" /\ log[k].anomaly_type = type}

(* C7: a row with a missing Respondent ID contributes no key, causes       *)
(* exactly one anomaly record, does not stop the rows after it, and a file *)
(* declared only in such a row is named NORESPID_.                         *)
(* The code breaks the second part: when the row holds a value json.dumps  *)
(* rejects (a date cell), the record written is an error line.             *)
C7_MissingIdRowLogged ==
    Building =>
        /\ DOMAIN lookup = UNION {DeclForms[p] : p \in Decls}
        /\ Cardinality(Anomalies("missing_respondent_id"))
              = Cardinality({i \in 1..Len(df) : IsNa(df[i].rid)})
        /\ \A i \in Entries :
              DeclsOf(DeclForms, named[i].file.name) = {} =>
                  StartsWith(named[i].new_name, NoRespPrefix)

(* C8: a row whose Respondent ID is present but not a number is not fatal: *)
(* reading a row never ends the run, so the rows after it are still added  *)
(* and the input files are still processed.                                *)
(* The code breaks it: int(float(...)) raises out of the build loop.       *)
C8_UnparseableIdNotFatal == [][pc = "build" => pc' \in {"build", "walk"}]_vars

-----------------------------------------------------------------------------
\* the log_file_event calls that found no file to stat and hash
Degraded == {i \in 1..Len(invoked) : invoked[i].op = "log_file_event" /\ ~invoked[i].found}

(* C9: every call of log_file_event, log_system_state, log_anomaly and     *)
(* log_process_execution returns to its caller, whatever its arguments and *)
(* the file system (missing file, non-path argument, details json.dumps    *)
(* rejects), and appends exactly one line to the session log.              *)
C9_OneLinePerCall ==
    /\ ~escaped
    /\ Len(log) = Len(invoked)

\* three calls have returned: one on a missing file, one on a non-path
\* argument, one with details that json.dumps rejects
C9_Witness ==
    /\ Len(invoked) = 3
    /\ Len(log) = 3
    /\ \E i \in Degraded : invoked[i].filepath = LogPath
    /\ \E i \in Degraded : invoked[i].filepath = None
    /\ \E i \in 1..Len(invoked) : invoked[i].op = "log_anomaly" /\ ~invoked[i].details.json_ok

(* C10: when log_file_event finds no file to stat and hash, the line it    *)
(* appends is a file event with the call's event type, path and details    *)
(* and null hashes, and load_logs and analyze_file_operations count it     *)
(* under its event type.                                                   *)
(* The code breaks it: the except branch writes "Error logging file        *)
(* event: ...", which json.loads rejects, so the call is not counted.      *)
C10_DegradedEventCounted ==
    \A i \in Degraded :
        /\ i <= Len(log)
        /\ log[i].kind = "file_event"
        /\ log[i].event_type = invoked[i].event_type
        /\ log[i].filepath = invoked[i].filepath
        /\ log[i].details = invoked[i].details
        /\ log[i].hashes = None
        /\ operation_count(load_logs(log).events, invoked[i].event_type) >= 1

-----------------------------------------------------------------------------
(* C11: two processes that each create a ForensicLogger on the same log    *)
(* directory, at any start times, write to different session files: no     *)
(* session file holds lines of more than one process.                      *)
(* The code breaks it: the file name carries the start time cut to the     *)
(* second, so two processes started within one second share a file.        *)
C11_SessionsDisjoint ==
    \A f \in DOMAIN log_dir :
        \A i, j \in 1..Len(log_dir[f]) : log_dir[f][i].pid = log_dir[f][j].pid

(* C12: the session log is append-only: across every step the content of   *)
(* each session file is a prefix of its content after the step, so no      *)
(* line already written is rewritten, reordered or removed, also when a    *)
(* second logger opens a file that already has lines.                      *)
C12_AppendOnly ==
    [][\A f \in DOMAIN log_dir :
          /\ f \in DOMAIN log_dir'
          /\ StartsWith(log_dir'[f], log_dir[f])]_vars

\* a session file that two loggers have open holds lines of both processes
C12_Witness ==
    /\ session[1] # NoSession
    /\ session[1] = session[2]
    /\ \E i, j \in 1..Len(log_dir[log_file(session[1])]) :
          /\ i < j
          /\ log_dir[log_file(session[1])][i].pid # log_dir[log_file(session[1])][j].pid

-----------------------------------------------------------------------------
(* Vocabulary of the extractor's properties.                               *)

\* the file events of one type about one path in the session log
FileEvents(types, path) ==
    {k \in 1..Len(log) : /\ log[k].kind = "file_event"
                         /\ log[k].event_type \in types
                         /\ log[k].filepath = path}

\* the anomaly records of some types about one input file
AnomaliesAbout(types, path) ==
    {k \in 1..Len(log) : /\ log[k].kind = "anomaly"
                         /\ log[k].anomaly_type \in types
                         /\ log[k].details.d.file = path}

StartTypes   == {"pdf_start", "docx_start"}
SuccessTypes == {"pdf_success", "docx_success"}
ErrorTypes   == {"pdf_error", "docx_error"}

\* the extractor handles files of these types that are not hidden
Supported(f) ==
    /\ ~StartsWith(f.name, <<".">>)
    /\ Lower(SplitExt(f.name)[2]) \in {PdfExt, DocxExt}

\* the canonical output of an input file
TargetOf(f) == JsonPath(get_output_filename(lookup, f.name, JsonExt)[1])

\* the run whose session log `log` is
LoggedRun == IF pc = "x_done" THEN Len(ended) ELSE Len(ended) + 1

\* the second run is under way or over
InSecondRun ==
    \/ Len(ended) = 2
    \/ Len(ended) = 1 /\ pc \notin {"x_done", "x_start"}

(* C13: in the session log, a success or error record of a file comes      *)
(* after a start record of that file, and a 'json_saved' record after the  *)
(* success record of the file it was made from.                            *)
(* The code breaks it: the start is logged with log_file_event, which      *)
(* writes an error line instead when the file cannot be stat'ed.           *)
C13_StartBeforeOutcome ==
    \A k \in 1..Len(log) :
        /\ (log[k].kind = "file_event" /\ log[k].event_type \in SuccessTypes) =>
              \E j \in FileEvents(StartTypes, log[k].filepath) : j < k
        /\ (log[k].kind = "anomaly" /\ log[k].anomaly_type \in ErrorTypes) =>
              \E j \in FileEvents(StartTypes, log[k].details.d.file) : j < k
        /\ (log[k].kind = "file_event" /\ log[k].event_type = "json_saved") =>
              \E j \in FileEvents(SuccessTypes, log[k].details.d.original_file) : j < k

(* C14: when the walk meets a file whose canonical output exists and force *)
(* is not set, the extractor is not invoked, the output tree is left as it *)
(* is and exactly one 'skip_existing_output' entry for the file is logged; *)
(* with force set the file goes to the extraction.                         *)
(* The code breaks the log entry: it is a log_file_event on the input      *)
(* file, which writes an error line when that file cannot be stat'ed.      *)
C14_SkipExisting ==
    [][(pc = "x_walk" /\ visited' # visited
          /\ Supported(tree[Len(visited) + 1])
          /\ TargetOf(tree[Len(visited) + 1]) \in DOMAIN outputs) =>
       IF force
       THEN pc' = "x_extract" /\ cur'.file = tree[Len(visited) + 1]
       ELSE /\ pc' = "x_walk"
            /\ extracted' = extracted
            /\ outputs' = outputs
            /\ Len(log') = Len(log) + 1
            /\ log'[Len(log')].kind = "file_event"
            /\ log'[Len(log')].event_type = "skip_existing_output"
            /\ log'[Len(log')].filepath = FilePath(tree[Len(visited) + 1])]_vars

(* C15: when the extractor has run over an input tree and runs again over  *)
(* the same tree and mapping without force, the second run creates no      *)
(* artifact that the first run did not leave and logs no 'json_saved',     *)
(* whether the first run saved, skipped or failed each file.               *)
C15_SecondRunAddsNothing ==
    (InSecondRun /\ ended[1].how # "killed" /\ ~force) =>
        /\ DOMAIN outputs \subseteq ended[1].artifacts
        /\ \A k \in 1..Len(log) :
              ~(log[k].kind = "file_event" /\ log[k].event_type = "json_saved")

\* both runs are over, the second without force: the first saved an artifact,
\* which the second skipped, and a file that failed was tried again
C15_Witness ==
    /\ Len(ended) = 2
    /\ ended[1].how = "done"
    /\ ended[2].how = "done"
    /\ ~force
    /\ ended[1].artifacts # {}
    /\ \E f \in XFiles : <<1, f>> \in extracted /\ <<2, f>> \in extracted
    /\ \E k \in 1..Len(log) :
          log[k].kind = "file_event" /\ log[k].event_type = "skip_existing_output"

(* C16: a file whose extraction failed or gave empty text has no artifact  *)
(* and an anomaly record in the log of the run, and every artifact holds   *)
(* non-empty text.                                                         *)
(* The code breaks it: empty text is logged as a success and dropped by    *)
(* `if text:` without an anomaly.                                          *)
C16_FailureLogged ==
    pc \in {"x_walk", "x_done"} =>
        /\ \A f \in XFiles :
              (<<LoggedRun, f>> \in extracted /\ ~(Opens(f) /\ TextOf(f) # <<>>)) =>
                  /\ AnomaliesAbout(ErrorTypes \cup {"macro_detected"}, FilePath(f)) # {}
                  /\ \A q \in DOMAIN outputs :
                        outputs[q].written => outputs[q].doc.original_path # FilePath(f)
        /\ \A q \in DOMAIN outputs : outputs[q].written => outputs[q].doc.text # <<>>

(* C17: a read, write, copy or directory-creation failure on one input     *)
(* file never aborts the batch: handling a file of the walk leaves the     *)
(* walk going, so that the later files and the mapping CSV follow.         *)
(* The code breaks it: os.makedirs is outside the inner try of             *)
(* rename_files, and open(json_path, "w") of the extractor has no handler. *)
C17_FileFailureNotFatal ==
    [][(pc = "walk" /\ visited' # visited) => pc' = "walk"]_vars

(* C18: in every state of a run, and so wherever the run is terminated, an *)
(* artifact that exists at its path holds a written document with          *)
(* non-empty text.                                                         *)
(* The code breaks it: open(json_path, "w") creates the file empty before  *)
(* json.dump writes into it.                                               *)
C18_NoEmptyArtifact ==
    \A q \in DOMAIN outputs : outputs[q].written /\ outputs[q].doc.text # <<>>

(* C20: a visited file on the exclusion list leaves no log record and no   *)
(* output; any other visited file whose name begins with '.' leaves no     *)
(* output and has a record of its skip in the log.                         *)
(* The code breaks it: the extractor passes over both kinds silently.      *)
C20_HiddenSkipLogged ==
    \A i \in 1..Len(visited) :
        LET f == visited[i]
            records == {k \in 1..Len(log) :
                           /\ log[k].kind = "file_event"
                           /\ log[k].filepath \in {FilePath(f), TargetOf(f)}}
        IN  /\ f.name \in ExcludedNames => records = {}
            /\ (StartsWith(f.name, <<".">>) /\ f.name \notin ExcludedNames) =>
                  /\ records # {}
                  /\ \A q \in DOMAIN outputs :
                        outputs[q].written => outputs[q].doc.original_path # FilePath(f)

-----------------------------------------------------------------------------
(* C19: when two extractor processes both find the same target absent,     *)
(* then once both have finished the target exists and holds the whole      *)
(* artifact of the process that wrote last, never a mixture of the two.    *)
(* The code breaks it: each process writes at its own offset into the      *)
(* file the other has opened, so blocks of both remain.                    *)
C19_LastWriterWins ==
    (\A p \in Procs : racers[p].at = "done" /\ racers[p].absent) =>
        /\ RacePath \in DOMAIN outputs
        /\ outputs[RacePath] = DocOf(last_writer, racers[last_writer].file)


-----------------------------------------------------------------------------
(* The mapping-audit CSV of a rename run.                                  *)

\* the visited files that are not on the exclusion list, in walk order
Listed == SelectSeq(visited, LAMBDA f : f.name \notin ExcludedNames)

\* C21: the mapping CSV written at the end of a rename run has exactly one
\* row for every visited file other than .DS_Store and .gitkeep, in walk
\* order: hidden files are marked as skipped, and files whose copy failed
\* have their row too.
C21_CsvCoversVisited ==
    csv.written =>
        /\ Len(csv.rows) = Len(Listed)
        /\ \A i \in 1..Len(Listed) :
              /\ csv.rows[i][1] = Listed[i].name
              /\ Listed[i].name[1] = "." => csv.rows[i][2] = SkippedMark

-----------------------------------------------------------------------------
(* The enrichment merge.                                                   *)

\* both enricher runs went through the merge loop
BothMerged == pc = "e_done" /\ enr.run = 2 /\ Len(enr.indexed) = 2

\* C22: the enrichment merge is idempotent: after a second run with the same
\* mapping, column selection and artifacts, every artifact has exactly the
\* keys and values the first run left it with.
\* The code breaks it: a selected column named 'filename' overwrites the key
\* the artifacts are indexed by, so the second run pairs rows and artifacts
\* differently.
C22_EnrichIdempotent == BothMerged => outputs = enr.after

\* C23: no file-slot column of the mapping is merged into an artifact, in
\* any selection mode.
\* The code breaks it: a --columns list is appended to the selection as it
\* is, file columns included.
C23_NoFileColumnMerged == \A key \in enr.merged : ~IsFileColumn(key)

\* the 'filename' of the artifact at file_path, <<>> when it has none
FilenameOf(file_path) ==
    IF outputs[file_path].written /\ FilenameKey \in DOMAIN outputs[file_path].doc
    THEN outputs[file_path].doc[FilenameKey].s ELSE <<>>

\* the a-th and the b-th file of the walk have filenames with one normalised key
Collide(a, b) ==
    /\ FilenameOf(enr.walk[a]) # <<>>
    /\ FilenameOf(enr.walk[b]) # <<>>
    /\ normalize_filename(FilenameOf(enr.walk[a])) = normalize_filename(FilenameOf(enr.walk[b]))

\* C24: when two artifacts have filenames that normalise to the same key,
\* the declared files of that key are merged into the one found first in
\* the walk, and the collision is in the log.
\* The code breaks it: the later file replaces the earlier one in the index,
\* and nothing is logged.
C24_FirstFoundWins ==
    (pc = "e_rows" /\ enr.run = 1 /\ enr.i = 0) =>
        \A a, b \in 1..Len(enr.walk) :
            (a < b /\ Collide(a, b)) =>
                /\ enr.json_file_dict[normalize_filename(FilenameOf(enr.walk[a]))] = enr.walk[a]
                /\ \E k \in 1..Len(log) :
                      /\ log[k].kind = "anomaly"
                      /\ log[k].details = Details(enr.walk[b])

-----------------------------------------------------------------------------
(* The analysis of a session file.                                         *)

\* analyze_file_operations has returned
Analyzed == ana.at \in {"system", "timeline", "report", "done"}

\* the distinct paths of the loaded events with the hash sha256
PathsOf(sha256) ==
    {ana.events[i].filepath :
        i \in {k \in 1..Len(ana.events) :
                  IsEvent(ana.events[k]) /\ ana.events[k].hashes.sha256 = sha256}}

\* C25: a hash is reported as a duplicate-content group exactly when the
\* loaded file events with that sha256 name at least two distinct paths; one
\* file logged several times is no duplicate.
\* The code breaks it: the group is reported when the hash has two events,
\* also when both are of one path.
C25_DuplicatesAreDistinctPaths ==
    Analyzed =>
        \A i \in 1..Len(ana.events) :
            IsEvent(ana.events[i]) =>
                LET sha256 == ana.events[i].hashes.sha256 IN
                sha256 \in DOMAIN ana.file_analysis.duplicate_files
                    <=> Cardinality(PathsOf(sha256)) >= 2

\* the file events the logger wrote to the session file
Logged == {i \in 1..Len(log) : log[i].kind = "file_event"}

\* C26: the recorded hashes are functions of the file's bytes (two events
\* agree on sha256 exactly when they agree on md5), and when two files with
\* the same bytes and different names have been logged, the duplicate group
\* of their hash holds both paths.
\* The code breaks it: the event of a file whose path holds the text
\* 'System State' is loaded as a system state and reaches no group.
C26_SameBytesGrouped ==
    /\ \A i, j \in Logged :
          log[i].hashes.sha256[2] = log[j].hashes.sha256[2] <=> log[i].hashes = log[j].hashes
    /\ Analyzed =>
          \A i, j \in Logged :
              (log[i].hashes.sha256 = log[j].hashes.sha256 /\ log[i].filepath # log[j].filepath) =>
                  /\ log[i].hashes.sha256 \in DOMAIN ana.file_analysis.duplicate_files
                  /\ InSeq(log[i].filepath,
                           ana.file_analysis.duplicate_files[log[i].hashes.sha256])
                  /\ InSeq(log[j].filepath,
                           ana.file_analysis.duplicate_files[log[i].hashes.sha256])

\* the lines with three parts whose message is the JSON of a logger call
WellFormed(rec) ==
    rec.kind \in {"file_event", "system_state", "anomaly", "process_execution"}

\* how generate_report ends on the lists loaded from the lines lg
ReportOf(lg) ==
    LET loaded == load_logs(lg) IN
    IF \/ analyze_file_operations(loaded.events).raised
       \/ analyze_system_behavior(loaded.system_states).raised
       \/ generate_timeline(loaded.events, loaded.anomalies).raised
    THEN "raised" ELSE "done"

\* C27: malformed lines (too few parts, a message that is not JSON, JSON
\* that is no event object) are skipped: what load_logs loads is what it
\* loads from the well-formed lines alone, and the analysis and the report
\* end as they do on the well-formed lines alone.
\* The code breaks it: a message that is JSON and no event object is loaded
\* as an event, and the analysis raises on it.
C27_MalformedLinesSkipped ==
    LET clean == SelectSeq(log, WellFormed) IN
    /\ (ana.at # "load" \/ ana.i = Len(log)) =>
          /\ ana.events = load_logs(clean).events
          /\ ana.anomalies = load_logs(clean).anomalies
          /\ ana.system_states = load_logs(clean).system_states
          /\ ana.process_executions = load_logs(clean).process_executions
    /\ ana.at \in {"raised", "done"} => ana.at = ReportOf(clean)

-----------------------------------------------------------------------------
(* The exit status of the validator.                                       *)

\* the files the mapping declares in its File#1 .. File#20 columns
DeclaredFiles ==
    LET slots == {ColName(n) : n \in 1..NumSlots}
                    \cap {vld.columns[k] : k \in 1..Len(vld.columns)}
        cells == {<<i, c>> \in (1..Len(vld.rows)) \X slots : ~Blank(vld.rows[i][c])}
    IN  {vld.rows[cell[1]][cell[2]].s : cell \in cells}

\* an artifact saved for an input file of that normalised name is there
HasArtifact(filename) ==
    \E file_path \in DOMAIN outputs :
        /\ FilenameOf(file_path) # <<>>
        /\ normalize_filename(FilenameOf(file_path)) = normalize_filename(filename)

\* the mapping file was there and pandas read it
MappingRead ==
    \E k \in 1..Len(log) :
        log[k].kind = "file_event" /\ log[k].event_type = "mapping_file_loaded"

\* C28: the validator exits with a non-zero status when the mapping file is
\* missing, and when the mapping (read, with files declared in its File#n
\* columns) is there it exits with 0 exactly when every declared file has a
\* corresponding artifact.
\* The code breaks it: its pattern for file columns does not match 'File#1',
\* so a mapping in that format always ends with status 1.
C28_ExitTellsCompleteness ==
    vld.exit # NoExit =>
        /\ ~vld.exists => vld.exit # 0
        /\ (\A file \in DeclaredFiles : ~HasArtifact(file)) /\ DeclaredFiles # {} => vld.exit # 0
        /\ MappingRead /\ DeclaredFiles # {} =>
              (vld.exit = 0 <=> \A file \in DeclaredFiles : HasArtifact(file))

-----------------------------------------------------------------------------
(* Fatal configuration errors of the rename stage.                         *)

\* the step ends the run before the mapping was read: the mapping file or the
\* input directory is missing, unreadable or of an unsupported format
ConfigErrorStep == pc = "start" /\ pc' \in {"done", "refused"}

\* the error was printed by __main__ or is an anomaly of the log
Reported(at, lg) ==
    \/ at = "refused"
    \/ \E k \in 1..Len(lg) : lg[k].kind = "anomaly"

\* C29: a run of the rename stage that ends on a missing, unreadable or
\* unsupported mapping file or input directory has reported it, exits with a
\* non-zero status and has copied or renamed no input file.
\* The code breaks it: after an unsupported or unreadable mapping file
\* rename_files returns and the process ends with status 0.
C29_ConfigErrorIsFatal ==
    [][ConfigErrorStep =>
           /\ Reported(pc', log')
           /\ ExitStatus(pc') # 0
           /\ outputs' = outputs /\ named' = named]_vars

-----------------------------------------------------------------------------
(* The snapshots at the two ends of a run.                                 *)

IsSnapshot(rec) == rec.kind = "system_state"

\* C30: when a run of a stage has ended after starting (normal completion,
\* early return on a bad mapping, caught processing error), the first record
\* of its session is a system snapshot and so is the last one.
\* The code breaks it: the return after 'invalid_mapping_file' leaves
\* rename_files before the closing log_system_state.
C30_SnapshotsBracketRun ==
    pc = "done" =>
        /\ log # <<>>
        /\ IsSnapshot(log[1])
        /\ IsSnapshot(log[Len(log)])

-----------------------------------------------------------------------------
(* The timeline of the report.                                             *)

\* a timeline has been produced
TimelineMade == ana # <<>> /\ ana.at \in {"report", "done"}

\* the records of the session files that are file events or anomalies
Significant == {log[i] : i \in {k \in 1..Len(log) : log[k].kind \in {"file_event", "anomaly"}}}

\* how often a record is among the lines read, and among the timeline
TimesLogged(rec) == Cardinality({i \in 1..Len(log) : log[i] = rec})
TimesListed(rec) == Cardinality({i \in 1..Len(ana.timeline) : ana.timeline[i].details = rec})

\* C31: the timeline holds every file event and every anomaly of the session
\* files as often as it was logged, in non-decreasing order of the timestamps,
\* whatever the order the lines were read in.
\* The code breaks it: an event whose file path holds the text 'System State'
\* is loaded as a system state and is missing from the timeline.
C31_TimelineComplete ==
    TimelineMade =>
        /\ \A rec \in Significant : TimesListed(rec) = TimesLogged(rec)
        /\ \A i \in 1..Len(ana.timeline) : ana.timeline[i].details \in Significant
        /\ \A i, j \in 1..Len(ana.timeline) :
              i < j => ana.timeline[i].timestamp <= ana.timeline[j].timestamp

-----------------------------------------------------------------------------
(* The suspicious operations of the report.                                *)

\* the event types under which a stage records that a file was written or
\* saved
SavingTypes == {"write", "json_saved"}

\* the event is among the suspicious operations of the analysis
Suspicious(event) ==
    \E k \in 1..Len(ana.file_analysis.suspicious_operations) :
        LET op == ana.file_analysis.suspicious_operations[k] IN
        op.filepath = event.filepath /\ op.timestamp = event.timestamp

\* C32: a loaded file event that records the writing or saving of a
\* zero-byte file is among the suspicious operations, and no event of a
\* non-empty file is.
\* The code breaks it: only the event type 'write' is looked at, which no
\* stage logs; the 'json_saved' of an empty file is not listed.
C32_ZeroByteWritesListed ==
    Analyzed =>
        /\ \A i \in 1..Len(ana.events) :
              LET event == ana.events[i] IN
              (IsEvent(event) /\ event.event_type \in SavingTypes /\ event.file_size = 0)
                  => Suspicious(event)
        /\ \A k \in 1..Len(ana.file_analysis.suspicious_operations) :
              LET op == ana.file_analysis.suspicious_operations[k] IN
              \E i \in 1..Len(ana.events) :
                  /\ IsEvent(ana.events[i]) /\ ana.events[i].file_size = 0
                  /\ ana.events[i].filepath = op.filepath
                  /\ ana.events[i].timestamp = op.timestamp

-----------------------------------------------------------------------------
(* The rows the enricher merges.                                           *)

\* the step is one iteration of the row loop, on the row RowAt
RowStep == pc = "e_rows" /\ enr.i < Len(enr.rows) /\ enr'.i = enr.i + 1
RowAt == enr.rows[enr.i + 1]

\* the artifacts indexed under the files the row declares
MatchingFiles(row) ==
    {DictGet(enr.json_file_dict, normalize_filename(row[enr.file_columns[j]].s)) :
        j \in {k \in 1..Len(enr.file_columns) :
                  /\ IsStr(row[enr.file_columns[k]])
                  /\ ~Blank(row[enr.file_columns[k]])
                  /\ normalize_filename(row[enr.file_columns[k]].s)
                         \in DOMAIN enr.json_file_dict}}

\* C33: a row whose Respondent ID is missing changes no artifact, and a row
\* that has a respondent id is merged into the artifacts matching its
\* declared files.
\* The code breaks it: `if not respondent_id` is false for NaN, so the row
\* without an id is merged, with respondent_id NaN.
C33_OnlyRowsWithId ==
    [][RowStep =>
          /\ IsNa(RowAt[RespondentIdColumn]) => outputs' = outputs
          /\ ~IsNa(RowAt[RespondentIdColumn]) =>
                \A file_path \in MatchingFiles(RowAt) :
                    /\ respondent_id \in DOMAIN outputs'[file_path].doc
                    /\ outputs'[file_path].doc[respondent_id] = RowAt[RespondentIdColumn]]_vars

\* the names the file columns of the row declare, as str(row[file_col])
DeclaredNames(row) ==
    {IF IsStr(row[enr.file_columns[j]]) THEN row[enr.file_columns[j]].s ELSE <<"n">> :
        j \in {k \in 1..Len(enr.file_columns) : ~Blank(row[enr.file_columns[k]])}}

\* the artifact at file_path carries the name of a file the row declares,
\* up to normalisation
NamesDeclared(file_path, row) ==
    /\ FilenameKey \in DOMAIN outputs[file_path].doc
    /\ IsStr(outputs[file_path].doc[FilenameKey])
    /\ \E filename \in DeclaredNames(row) :
          normalize_filename(outputs[file_path].doc[FilenameKey].s)
              = normalize_filename(filename)

\* the step changes the artifact at file_path
Rewrites(file_path) == outputs'[file_path] # outputs[file_path]

\* C38: the enricher changes an artifact only in the row loop, only when the
\* normalised 'filename' of the artifact is the normalised name of a file the
\* row declares, and the 'text' and 'filename' of a changed artifact keep
\* their values; a run that cannot load the mapping or finds no file column
\* changes nothing.
\* The code breaks it: a selected metadata column called 'filename' (or
\* 'text') is merged over the field of the same name.
C38_OnlyDeclaredRewritten ==
    [][\A file_path \in DOMAIN outputs :
          Rewrites(file_path) =>
              /\ RowStep
              /\ NamesDeclared(file_path, RowAt)
              /\ outputs'[file_path].doc[TextKey] = outputs[file_path].doc[TextKey]
              /\ outputs'[file_path].doc[FilenameKey] = outputs[file_path].doc[FilenameKey]]_vars

-----------------------------------------------------------------------------
(* The artifacts of the transcriber.                                       *)

\* the input files of the transcriber whose artifact is there
Transcribed ==
    {f \in {wsp.files[k] : k \in 1..Len(wsp.files)} :
        TranscriptPath(f, get_output_filename(lookup, f.name, JsonExt)[1]) \in DOMAIN outputs}

\* the document of the artifact of an input file
TranscriptOf(f) ==
    outputs[TranscriptPath(f, get_output_filename(lookup, f.name, JsonExt)[1])].doc

\* C34: the 'filename' field of an artifact is the original name of the input
\* file it was produced from, for audio and video inputs alike.
\* The code breaks it: a video is transcribed from its temporary .wav file,
\* whose name is stored.
C34_FilenameIsOriginal ==
    \A f \in Transcribed : TranscriptOf(f).filename = f.name

\* C35: an artifact carries 'respondent_id' and 'file_column' exactly when
\* its input filename is matched by the lookup, whatever the respondent id.
\* The code breaks it: `if respondent_id:` is false for the respondent id 0.
C35_IdentityFieldsIffMatched ==
    \A f \in Transcribed :
        /\ "respondent_id" \in DOMAIN TranscriptOf(f) <=> f.name \in DOMAIN lookup
        /\ "file_column" \in DOMAIN TranscriptOf(f) <=> f.name \in DOMAIN lookup
        /\ f.name \in DOMAIN lookup /\ "respondent_id" \in DOMAIN TranscriptOf(f) =>
              /\ TranscriptOf(f).respondent_id = lookup[f.name][1]
              /\ TranscriptOf(f).file_column = lookup[f.name][2]

-----------------------------------------------------------------------------
(* The loggers of one process.                                             *)

\* C36: with several ForensicLogger instances in one process, a record
\* logged through one instance is written once, to that instance's session
\* file, and to no other.
\* The code breaks it: the instances share one logging.Logger, which hands
\* every record to the handlers of all of them.
C36_RecordInOwnFileOnce ==
    \A f \in DOMAIN log_dir :
        \A i \in 1..Len(log_dir[f]) :
            /\ f = log_file(session[log_dir[f][i].pid])
            /\ \A g \in DOMAIN log_dir :
                  \A j \in 1..Len(log_dir[g]) :
                      log_dir[g][j] = log_dir[f][i] => (g = f /\ j = i)

-----------------------------------------------------------------------------
(* The renamer and its input tree.                                         *)

\* the run has taken the files of the input directory in hand
DiskListed == rnm # <<>> /\ rnm.listed

\* C37: rename_files never renames, modifies or deletes an input file: at
\* every point of a run, and after it, every input file is on the disk under
\* its original path with its original bytes, and any other file of the disk
\* is the mapping CSV or holds the bytes of an input file.
\* The code breaks it when output_dir is input_dir: a file is copied over the
\* input file that already has its canonical name.
C37_InputsUntouched ==
    DiskListed =>
        /\ \A path \in DOMAIN rnm.inputs :
              /\ path \in DOMAIN rnm.disk
              /\ rnm.disk[path] = rnm.inputs[path]
        /\ \A path \in DOMAIN rnm.disk \ DOMAIN rnm.inputs :
              \/ path = DiskCsvPath(rnm.output_dir)
              \/ \E src \in DOMAIN rnm.inputs : rnm.disk[path] = rnm.inputs[src]

-----------------------------------------------------------------------------
(* The links of the YouTube stage.                                         *)

\* the stage has just handled a link that names a video
LinkHandled == ytb # <<>> /\ ytb.last # NoLink

\* C39: for a link the stage writes a transcript artifact or downloads the
\* video, never both; it downloads the video only when no transcript could
\* be obtained; and without force it does neither for a link whose
\* transcript artifact or whose downloaded video is already there.
\* The code breaks it: the downloaded video is looked for only after the
\* transcript was asked for, so a link whose video is there gets a transcript
\* artifact when the transcript API answers this time.
C39_OneOfTranscriptOrVideo ==
    LinkHandled =>
        /\ ~(ytb.last.wrote /\ ytb.last.downloaded)
        /\ ytb.last.downloaded => ytb.last.transcript \in {None, <<>>}
        /\ (~ytb.force_reprocess /\ (ytb.last.had_artifact \/ ytb.last.had_video)) =>
              (~ytb.last.wrote /\ ~ytb.last.downloaded)

-----------------------------------------------------------------------------
(* The legacy script run twice.                                            *)

\* the second run of the script is over
SecondRunOver == leg # <<>> /\ leg.run = 2 /\ leg.at = "done"

\* C40: the second of two runs of the legacy script with the same arguments
\* writes the text files the first run wrote and collects the CSV rows the
\* first run collected.
\* The code breaks it: the files the first run renamed are still in
\* /tmp/work, next to the fresh copies of the inputs, and the second run
\* takes them for inputs.
C40_SecondRunSame ==
    SecondRunOver =>
        /\ leg.written = leg.first.written
        /\ {filename_mappings[i] : i \in 1..Len(filename_mappings)} = leg.first.rows

====
